---- MODULE Spec2Model ----
(***************************************************************************)
(* Model of the post-mortem analysis code of the alltoallv profiler:       *)
(*   - GlobalPatterns.addPattern and ParseCountFiles                       *)
(*     (tools/internal/pkg/format/format.go),                              *)
(*   - the report writers of SaveCounterStats (same file),                 *)
(*   - the small-message test of print_data (the capture library),         *)
(*   - compress_int_array and _log_data of the capture library and the     *)
(*     reader of the counts file, GetBins,                                 *)
(*   - getInfoFromFilename, getCountersFromValidationFile and Validate,    *)
(*   - the grouping engine as grouping_test drives it, and grouping_test,  *)
(*   - ConvertIntMapToOrderedArrayByValue, insert_sendrecv_data,           *)
(*     validateProfiler and scale.MapFloat64s.                             *)
(* Go maps (map[int]int) are functions with a finite domain of integers.   *)
(* A *CallPattern stored in OneToN is the index of the pattern in          *)
(* AllPatterns: patterns are never moved, so the index is the pointer.     *)
(***************************************************************************)
EXTENDS Integers, Sequences, FiniteSets, TLC

VARIABLES
    pc,       \* ParseCountFiles: "loop", "done" (returned cs, nil), "error"
    i,        \* ParseCountFiles: the loop counter, the call being analysed
    record,   \* the block of the counts files LookupCall read for call i-1
    cs,       \* ParseCountFiles: the CountStats being built
    gp,       \* a GlobalPatterns that addPattern is called on directly
    nAdd,     \* number of addPattern calls made on gp
    lastAdd,  \* arguments of the most recent addPattern call on gp
    wpc,      \* the report writers: "idle", "range", "done" or "error"
    wmap,     \* the number of the map being ranged over, in RangedMaps
    wcs,      \* the CountStats handed to the report writers
    todo,     \* keys of the map being ranged over that range has not yielded
    out,      \* the lines written to the report file so far
    mA,       \* three CountStats to merge
    mB,
    mC,
    mOut,     \* the merges computed from them
    cpc,      \* compress_int_array: "in", "out" (returned), "back" (decoded)
    cIn,      \* the array handed to compress_int_array
    cOut,     \* what compress_int_array returned
    cBack,    \* the decoding of the returned string
    lpc,      \* log_data: "header", "data", "closed" or "crashed"
    lList,    \* counters_list: the arguments of the _log_data calls
    lNode,    \* the node of counters_list being logged
    lIdx,     \* count_data_number of _log_data
    fh,       \* the lines of the send counters file
    hurt,     \* what happened to the file after it was written
    bpc,      \* GetBins: "idle", "loop", "done" or "error"
    reader,   \* GetBins: the line the bufio reader is at
    blk,      \* GetBins: number of headers read
    bins,     \* GetBins: the bins
    numCalls, \* GetBins: numCalls of the last header
    fnPath,   \* the path handed to getInfoFromFilename
    fnOut,    \* what getInfoFromFilename returned
    vfText,   \* the content of the file getCountersFromValidationFile reads
    vfOut,    \* what getCountersFromValidationFile returned
    vpc,      \* Validate: "start", "loop", "ok" (returned nil) or "error"
    vPid,     \* Validate: the pid argument
    vDir,     \* the validation files of the directory, in ReadDir order
    vData,    \* what the profile holds for a (rank, call)
    files,    \* Validate: the files getValidationFiles returned
    vIdx,     \* Validate: the file the loop is at
    vErr,     \* Validate: the error returned
    vDone,    \* the names printed as validated
    gTol,     \* the grouping engine: the policy it was initialised with
    gGroups,  \* the grouping engine: its groups, in value order
    gAdded,   \* the ids added since the last get_groups/grouping_fini
    gTotal,   \* number of add_datapoint calls made
    gRuns,    \* number of get_groups/grouping_fini calls made
    gOut,     \* the groups the last get_groups returned
    gSince,   \* the ids that had been added when it returned them
    tpc, \* grouping_test: "pick", "add", "failed" (returned 1)
    tTest, \* grouping_test: the test being run, or the last one run
    tJ, \* grouping_test: number of points of the test added
    tRuns, \* number of tests run
    kpc, \* ConvertIntMapToOrderedArrayByValue: "idle", "range" or "done"
    kMap, \* the map handed to it
    kTodo, \* the keys range has not yielded yet
    kArr, \* sortedArray
    kOut, \* the lists returned so far, one per call
    ipc, \* the capture library: "idle", "run" or "crashed"
    myrank, \* the rank of the process in MPI_COMM_WORLD
    sizeofType, \* sizeof(MPI_Datatype) of the build
    head, \* the list of avSRCountNode, from head along next
    avCalls, \* number of alltoallv calls made
    iArgs, \* the arguments of the last insert_sendrecv_data call
    iRead, \* the reads of that call past the end of a stored send_data
    ppc, \* validateProfiler: "build", "tempdir", "lib", "check", "clean", "ok", "error"
    keepResults, \* validateProfiler: its arguments
    fullValidation,
    pIdx, \* the test the loop over validationTests is at
    pLib, \* the library the loop over sharedLibraries is at
    results, \* validateProfiler: the map of the result directories
    pMade, \* the temporary directories created, by test
    pDirs, \* those of them that exist
    pRan, \* the tests mpirun was started for
    pChecked, \* the tests whose output check succeeded
    pRet, \* the map validateProfiler returned
    mpc, \* MapFloat64s: "idle", "call", "returned" or "loops"
    unitID, \* MapFloat64s: the arguments of the innermost call
    values,
    mActive \* the arguments of the calls that have not returned

parseVars == <<pc, i, record, cs>>
patVars == <<gp, nAdd, lastAdd>>
writeVars == <<wpc, wmap, wcs, todo, out>>
mergeVars == <<mA, mB, mC, mOut>>
analysisVars == <<parseVars, patVars, writeVars, mergeVars>>
codecVars == <<cpc, cIn, cOut, cBack>>
fileVars == <<lpc, lList, lNode, lIdx, fh, hurt, bpc, reader, blk, bins, numCalls>>
nameVars == <<fnPath, fnOut>>
loadVars == <<vfText, vfOut>>
valVars == <<vpc, vPid, vDir, vData, files, vIdx, vErr, vDone>>
groupVars == <<gTol, gGroups, gAdded, gTotal, gRuns, gOut, gSince>>
toolVars == <<codecVars, fileVars, nameVars, loadVars, valVars, groupVars>>
testVars == <<tpc, tTest, tJ, tRuns>>
convVars == <<kpc, kMap, kTodo, kArr, kOut>>
insVars == <<ipc, myrank, sizeofType, head, avCalls, iArgs, iRead>>
profVars == <<ppc, keepResults, fullValidation, pIdx, pLib, results, pMade, pDirs, pRan, pChecked, pRet>>
scaleVars == <<mpc, unitID, values, mActive>>
moreVars == <<testVars, convVars, insVars, profVars, scaleVars>>
vars == <<analysisVars, toolVars, moreVars>>

\* what the actions of one component leave alone
notParse == <<patVars, writeVars, mergeVars, toolVars, moreVars>>
notPat == <<parseVars, writeVars, mergeVars, toolVars, moreVars>>
notWrite == <<parseVars, patVars, mergeVars, toolVars, moreVars>>
notMerge == <<parseVars, patVars, writeVars, toolVars, moreVars>>
notCodec == <<analysisVars, fileVars, nameVars, loadVars, valVars, groupVars, moreVars>>
notFile == <<analysisVars, codecVars, nameVars, loadVars, valVars, groupVars, moreVars>>
notName == <<analysisVars, codecVars, fileVars, loadVars, valVars, groupVars, moreVars>>
notLoad == <<analysisVars, codecVars, fileVars, nameVars, valVars, groupVars, moreVars>>
notVal == <<analysisVars, codecVars, fileVars, nameVars, loadVars, groupVars, moreVars>>
notGroup == <<analysisVars, codecVars, fileVars, nameVars, loadVars, valVars, moreVars>>
notTest == <<analysisVars, codecVars, fileVars, nameVars, loadVars, valVars, convVars, insVars, profVars, scaleVars>>
notConv == <<analysisVars, toolVars, testVars, insVars, profVars, scaleVars>>
notIns == <<analysisVars, toolVars, testVars, convVars, profVars, scaleVars>>
notProf == <<analysisVars, toolVars, testVars, convVars, insVars, scaleVars>>
notScale == <<analysisVars, toolVars, testVars, convVars, insVars, profVars>>

----------------------------------------------------------------------------
(* Bounds of the model *)

\* numCalls argument of ParseCountFiles
NumCalls == 2
\* number of direct addPattern calls
MaxAdd == 3

\* communicator sizes, counter values and datatype sizes of the counts files
CommSizeSet == {1, 2}
CounterVals == {0, 10, 30}
DatatypeSizes == {8, 20}

\* keys and values of the signatures handed to addPattern directly
SendSigKeys == {101, 250}
SendSigVals == {1, 2}
RecvSigKeys == {1}
RecvSigVals == {0, 1}

----------------------------------------------------------------------------
(* Program constants *)

\* format.go: DefaultMsgSizeThreshold
DefaultMsgSizeThreshold == 200
\* addPattern: sendTo > n*100
FanOutFactor == 100

----------------------------------------------------------------------------
(* Helpers on Go maps *)

EmptyMap == [k \in {} |-> 0]

RECURSIVE SumMap(_)
SumMap(m) ==
    IF DOMAIN m = {} THEN 0
    ELSE LET k == CHOOSE x \in DOMAIN m : TRUE
         IN m[k] + SumMap([x \in DOMAIN m \ {k} |-> m[x]])

SetMin(S) == CHOOSE x \in S : \A y \in S : x <= y
SetMax(S) == CHOOSE x \in S : \A y \in S : y <= x

\* all maps with keys among K and values in V
MapsOver(K, V) == UNION {[D -> V] : D \in SUBSET K}

----------------------------------------------------------------------------
(* GlobalPatterns.addPattern *)

\* datafilereader.CompareCallPatterns: same key set, same value per key
CompareCallPatterns(p1, p2) ==
    /\ DOMAIN p1 = DOMAIN p2
    /\ \A k \in DOMAIN p1 : p1[k] = p2[k]

NewGlobalPatterns == [AllPatterns |-> <<>>, OneToN |-> <<>>]

\* the stored patterns the scan of addPattern accepts
Matching(g, sendPatterns, recvPatterns) ==
    {idx \in 1..Len(g.AllPatterns) :
        /\ CompareCallPatterns(g.AllPatterns[idx].Send, sendPatterns)
        /\ CompareCallPatterns(g.AllPatterns[idx].Recv, recvPatterns)}

\* mutant: the two sides of the 1 -> n test are swapped
OneToNPairsSwapped(sendPatterns) ==
    {sendTo \in DOMAIN sendPatterns : sendTo * FanOutFactor > sendPatterns[sendTo]}

\* the pairs of the send signature the 1 -> n loop appends for
OneToNPairs(sendPatterns) ==
    {sendTo \in DOMAIN sendPatterns : sendTo > sendPatterns[sendTo] * FanOutFactor}

\* mutant: the scan compares the send signature only
AddPatternSendOnly(g, callNum, sendPatterns, recvPatterns) ==
    LET m == {idx \in 1..Len(g.AllPatterns) :
                 CompareCallPatterns(g.AllPatterns[idx].Send, sendPatterns)}
    IN IF m # {}
       THEN [g EXCEPT !.AllPatterns[SetMin(m)].Count = @ + 1,
                      !.AllPatterns[SetMin(m)].Calls = Append(@, callNum)]
       ELSE [AllPatterns |-> Append(g.AllPatterns,
                                [Send |-> sendPatterns, Recv |-> recvPatterns,
                                 Count |-> 1, Calls |-> <<callNum>>]),
             OneToN |-> g.OneToN \o
                 [k \in 1..Cardinality(OneToNPairs(sendPatterns)) |->
                      Len(g.AllPatterns) + 1]]

\* mutant: the call number of a matched record is not recorded
AddPatternNoCall(g, callNum, sendPatterns, recvPatterns) ==
    LET m == Matching(g, sendPatterns, recvPatterns)
    IN IF m # {}
       THEN [g EXCEPT !.AllPatterns[SetMin(m)].Count = @ + 1]
       ELSE [AllPatterns |-> Append(g.AllPatterns,
                                [Send |-> sendPatterns, Recv |-> recvPatterns,
                                 Count |-> 1, Calls |-> <<callNum>>]),
             OneToN |-> g.OneToN \o
                 [k \in 1..Cardinality(OneToNPairs(sendPatterns)) |->
                      Len(g.AllPatterns) + 1]]

\* mutant: a new pattern is put in front of the table
AddPatternInFront(g, callNum, sendPatterns, recvPatterns) ==
    LET m == Matching(g, sendPatterns, recvPatterns)
    IN IF m # {}
       THEN [g EXCEPT !.AllPatterns[SetMin(m)].Count = @ + 1,
                      !.AllPatterns[SetMin(m)].Calls = Append(@, callNum)]
       ELSE [AllPatterns |-> <<[Send |-> sendPatterns, Recv |-> recvPatterns,
                                Count |-> 1, Calls |-> <<callNum>>]>>
                             \o g.AllPatterns,
             OneToN |-> [k \in 1..Len(g.OneToN) |-> g.OneToN[k] + 1] \o
                 [k \in 1..Cardinality(OneToNPairs(sendPatterns)) |-> 1]]

\* mutant: OneToN is assigned the new pattern instead of being appended to
AddPatternResetOneToN(g, callNum, sendPatterns, recvPatterns) ==
    LET m == Matching(g, sendPatterns, recvPatterns)
    IN IF m # {}
       THEN [g EXCEPT !.AllPatterns[SetMin(m)].Count = @ + 1,
                      !.AllPatterns[SetMin(m)].Calls = Append(@, callNum)]
       ELSE [AllPatterns |-> Append(g.AllPatterns,
                                [Send |-> sendPatterns, Recv |-> recvPatterns,
                                 Count |-> 1, Calls |-> <<callNum>>]),
             OneToN |-> IF OneToNPairs(sendPatterns) = {} THEN g.OneToN
                        ELSE <<Len(g.AllPatterns) + 1>>]

\* mutant: the count of a new pattern starts at 0
AddPatternCountZero(g, callNum, sendPatterns, recvPatterns) ==
    LET m == Matching(g, sendPatterns, recvPatterns)
    IN IF m # {}
       THEN [g EXCEPT !.AllPatterns[SetMin(m)].Count = @ + 1,
                      !.AllPatterns[SetMin(m)].Calls = Append(@, callNum)]
       ELSE [AllPatterns |-> Append(g.AllPatterns,
                                [Send |-> sendPatterns, Recv |-> recvPatterns,
                                 Count |-> 0, Calls |-> <<callNum>>]),
             OneToN |-> g.OneToN \o
                 [k \in 1..Cardinality(OneToNPairs(sendPatterns)) |->
                      Len(g.AllPatterns) + 1]]

\* addPattern: the first stored pattern equal on Send and Recv gets the call;
\* otherwise a new pattern is appended, and appended to OneToN once for every
\* pair of the send signature with sendTo > n*100
AddPattern(g, callNum, sendPatterns, recvPatterns) ==
    LET m == Matching(g, sendPatterns, recvPatterns)
    IN IF m # {}
       THEN [g EXCEPT !.AllPatterns[SetMin(m)].Count = @ + 1,
                      !.AllPatterns[SetMin(m)].Calls = Append(@, callNum)]
       ELSE [AllPatterns |-> Append(g.AllPatterns,
                                [Send |-> sendPatterns, Recv |-> recvPatterns,
                                 Count |-> 1, Calls |-> <<callNum>>]),
             OneToN |-> g.OneToN \o
                 [k \in 1..Cardinality(OneToNPairs(sendPatterns)) |->
                      Len(g.AllPatterns) + 1]]

SendSigs == MapsOver(SendSigKeys, SendSigVals)
RecvSigs == MapsOver(RecvSigKeys, RecvSigVals)

NoAdd == [callNum |-> -1, send |-> EmptyMap, recv |-> EmptyMap]

\* one call globalPatterns.addPattern(callNum, sendPatterns, recvPatterns)
AddPatternCall ==
    /\ nAdd < MaxAdd
    /\ \E s \in SendSigs, r \in RecvSigs :
          /\ gp' = AddPattern(gp, nAdd, s, r)
          /\ lastAdd' = [callNum |-> nAdd, send |-> s, recv |-> r]
    /\ nAdd' = nAdd + 1
    /\ UNCHANGED notPat

----------------------------------------------------------------------------
(* ParseCountFiles *)

newCountStats ==
    [NumSendSmallMsgs |-> 0, NumSendLargeMsgs |-> 0, SizeThreshold |-> 0,
     NumSendSmallNotZeroMsgs |-> 0,
     CommSizes |-> EmptyMap, DatatypesSend |-> EmptyMap, DatatypesRecv |-> EmptyMap,
     CallSendSparsity |-> EmptyMap, CallRecvSparsity |-> EmptyMap,
     SendMins |-> EmptyMap, RecvMins |-> EmptyMap,
     SendMaxs |-> EmptyMap, RecvMaxs |-> EmptyMap,
     SendNotZeroMins |-> EmptyMap, RecvNotZeroMins |-> EmptyMap,
     Patterns |-> NewGlobalPatterns]

NoRecord == [commSize |-> 0, sendDt |-> 0, recvDt |-> 0, send |-> <<>>, recv |-> <<>>]

InitParse ==
    /\ pc = "loop"
    /\ i = 0
    /\ record = NoRecord
    /\ cs = newCountStats

InitPat ==
    /\ gp = NewGlobalPatterns
    /\ nAdd = 0
    /\ lastAdd = NoAdd

\* no report is being written
WriteIdle ==
    /\ wpc = "idle"
    /\ wmap = 0
    /\ wcs = newCountStats
    /\ todo = {}
    /\ out = <<>>

\* nothing is being merged
MergeIdle ==
    /\ mA = newCountStats
    /\ mB = newCountStats
    /\ mC = newCountStats
    /\ mOut = <<>>

\* compress_int_array has not been called
NoResult == [kind |-> "none", s |-> ""]

NoDecoding == [ok |-> FALSE, ids |-> <<>>]

CodecIdle ==
    /\ cpc = "idle"
    /\ cIn = <<>>
    /\ cOut = NoResult
    /\ cBack = NoDecoding

\* no counts file is written or read
FileIdle ==
    /\ lpc = "idle"
    /\ lList = <<>>
    /\ lNode = 0
    /\ lIdx = 0
    /\ fh = <<>>
    /\ hurt = "none"
    /\ bpc = "idle"
    /\ reader = 0
    /\ blk = 0
    /\ bins = <<>>
    /\ numCalls = 0

\* getInfoFromFilename has not been called
NameIdle ==
    /\ fnPath = ""
    /\ fnOut = [called |-> FALSE, err |-> FALSE, id |-> 0, rank |-> 0, call |-> 0]

\* getCountersFromValidationFile has not been called
LoadIdle ==
    /\ vfText = ""
    /\ vfOut = [called |-> FALSE, err |-> "", send |-> "", recv |-> ""]

NoError == [kind |-> "nil", file |-> "", expected |-> "", actual |-> ""]

\* Validate has not been called
ValIdle ==
    /\ vpc = "idle"
    /\ vPid = 0
    /\ vDir = <<>>
    /\ vData = <<>>
    /\ files = <<>>
    /\ vIdx = 0
    /\ vErr = NoError
    /\ vDone = <<>>

\* the grouping engine is not in use
GroupIdle ==
    /\ gTol = 0
    /\ gGroups = <<>>
    /\ gAdded = <<>>
    /\ gTotal = 0
    /\ gRuns = 0
    /\ gOut = <<>>
    /\ gSince = <<>>

\* the components that the analysis of the counts files does not use
\* the components below are idle
\* a nil map[string]string, and one that was made
NilMap == [nil |-> TRUE, m |-> <<>>]
MadeMap(m) == [nil |-> FALSE, m |-> m]

TestIdle ==
    /\ tpc = "pick"
    /\ tTest = 0
    /\ tJ = 0
    /\ tRuns = 0

ConvIdle ==
    /\ kpc = "idle"
    /\ kMap = EmptyMap
    /\ kTodo = {}
    /\ kArr = <<>>
    /\ kOut = <<>>

InsIdle ==
    /\ ipc = "idle"
    /\ myrank = 0
    /\ sizeofType = 0
    /\ head = <<>>
    /\ avCalls = 0
    /\ iArgs = <<>>
    /\ iRead = {}

ProfIdle ==
    /\ ppc = "idle"
    /\ keepResults = FALSE
    /\ fullValidation = FALSE
    /\ pIdx = 0
    /\ pLib = 0
    /\ results = NilMap
    /\ pMade = {}
    /\ pDirs = {}
    /\ pRan = {}
    /\ pChecked = {}
    /\ pRet = NilMap

ScaleIdle ==
    /\ mpc = "idle"
    /\ unitID = ""
    /\ values = EmptyMap
    /\ mActive = {}

MoreIdle == TestIdle /\ ConvIdle /\ InsIdle /\ ProfIdle /\ ScaleIdle

ToolsIdle ==
    CodecIdle /\ FileIdle /\ NameIdle /\ LoadIdle /\ ValIdle /\ GroupIdle

Init == InitParse /\ InitPat /\ WriteIdle /\ MergeIdle /\ ToolsIdle /\ MoreIdle

SpecPatterns == Init /\ [][AddPatternCall]_vars

\* A block of the counts files: the commSize x commSize send counters in
\* row-major order (rank r's counter for peer p at r*commSize + p + 1), and
\* the receive counters, where rank r receives from p what p sends to r.
Transposed(m, n) ==
    [idx \in 1..(n * n) |-> m[((idx - 1) % n) * n + ((idx - 1) \div n) + 1]]

\* the rows of counters a rank of a communicator of size n may have
Rows(n) ==
    IF n = 1 THEN {<<c>> : c \in CounterVals}
    ELSE {<<0, 0>>, <<0, 10>>, <<10, 0>>, <<10, 30>>, <<30, 30>>}

\* the matrices of a communicator of size n, one row per rank
Matrices(n) ==
    IF n = 1 THEN Rows(1) ELSE {r0 \o r1 : r0 \in Rows(2), r1 \in Rows(2)}

Records ==
    UNION {
        {[commSize |-> n, sendDt |-> sd, recvDt |-> rd,
          send |-> m, recv |-> Transposed(m, n)] :
            m \in Matrices(n), sd \in DatatypeSizes, rd \in DatatypeSizes}
        : n \in CommSizeSet}

\* mutant: a message whose size equals the threshold counts as small
IsSmallMsgOrEqual(count, typeSize, threshold) == count * typeSize <= threshold

\* print_data: (buf[num] * type_size) < msg_size_threshold
IsSmallMsg(count, typeSize, threshold) == count * typeSize < threshold

\* the counters of rank r (0-based) in a row-major matrix
Row(m, n, r) == [p \in 1..n |-> m[r * n + p]]

\* number of zero and of non-zero counters of the sequence s
CountZero(s) == Cardinality({k \in DOMAIN s : s[k] = 0})
CountNotZero(s) == Cardinality({k \in DOMAIN s : s[k] # 0})

\* degree -> number of ranks whose row has that many non-zero counters
DegreeMap(m, n) ==
    LET deg == [r \in 0..(n - 1) |-> CountNotZero(Row(m, n, r))]
        ds  == {deg[r] : r \in 0..(n - 1)}
    IN [d \in ds |-> Cardinality({r \in 0..(n - 1) : deg[r] = d})]

Values(s) == {s[k] : k \in DOMAIN s}

\* smallest non-zero counter; 0 when every counter is 0
NotZeroMin(s) ==
    IF Values(s) \ {0} = {} THEN 0 ELSE SetMin(Values(s) \ {0})

\* datafilereader.LookupCall: what ParseCountFiles reads of the CallInfo
LookupCall(rec, sizeThreshold) ==
    [SendSmallMsgs |->
        Cardinality({k \in DOMAIN rec.send :
                        IsSmallMsg(rec.send[k], rec.sendDt, sizeThreshold)}),
     SendSmallNotZeroMsgs |->
        Cardinality({k \in DOMAIN rec.send :
                        /\ rec.send[k] # 0
                        /\ IsSmallMsg(rec.send[k], rec.sendDt, sizeThreshold)}),
     SendLargeMsgs |->
        Cardinality({k \in DOMAIN rec.send :
                        ~IsSmallMsg(rec.send[k], rec.sendDt, sizeThreshold)}),
     SendDatatypeSize |-> rec.sendDt,
     RecvDatatypeSize |-> rec.recvDt,
     CommSize |-> rec.commSize,
     SendMin |-> SetMin(Values(rec.send)),
     RecvMin |-> SetMin(Values(rec.recv)),
     SendMax |-> SetMax(Values(rec.send)),
     RecvMax |-> SetMax(Values(rec.recv)),
     SendNotZeroMin |-> NotZeroMin(rec.send),
     RecvNotZeroMin |-> NotZeroMin(rec.recv),
     TotalSendZeroCounts |-> CountZero(rec.send),
     TotalRecvZeroCounts |-> CountZero(rec.recv),
     Patterns |-> [SendPatterns |-> DegreeMap(rec.send, rec.commSize),
                   RecvPatterns |-> DegreeMap(rec.recv, rec.commSize)]]

\* mutant: an existing key is reset to 1 instead of incremented
IncHistReset(m, k) ==
    IF k \in DOMAIN m THEN [m EXCEPT ![k] = 1] ELSE m @@ (k :> 1)

\* if _, ok := m[k]; ok { m[k]++ } else { m[k] = 1 }
IncHist(m, k) ==
    IF k \in DOMAIN m THEN [m EXCEPT ![k] = @ + 1] ELSE m @@ (k :> 1)

\* if _, ok := test[k]; ok { target[k]++ } else { target[k] = 1 }
IncHistIf(test, target, k) ==
    IF k \in DOMAIN test
    THEN (IF k \in DOMAIN target THEN [target EXCEPT ![k] = @ + 1]
          ELSE target @@ (k :> 1))
    ELSE [x \in DOMAIN target \cup {k} |-> IF x = k THEN 1 ELSE target[x]]

\* the body of the loop of ParseCountFiles for call number callNum
ParseCall(c, callNum, callInfo) ==
    LET sendMins == IncHist(c.SendMins, callInfo.SendMin)
        recvMins == IncHist(c.RecvMins, callInfo.RecvMin)
    IN [NumSendSmallMsgs |-> c.NumSendSmallMsgs + callInfo.SendSmallMsgs,
        NumSendSmallNotZeroMsgs |->
            c.NumSendSmallNotZeroMsgs + callInfo.SendSmallNotZeroMsgs,
        NumSendLargeMsgs |-> c.NumSendLargeMsgs + callInfo.SendLargeMsgs,
        SizeThreshold |-> c.SizeThreshold,
        DatatypesSend |-> IncHist(c.DatatypesSend, callInfo.SendDatatypeSize),
        DatatypesRecv |-> IncHist(c.DatatypesRecv, callInfo.RecvDatatypeSize),
        CommSizes |-> IncHist(c.CommSizes, callInfo.CommSize),
        SendMins |->
            IncHistIf(c.SendNotZeroMins, sendMins, callInfo.SendNotZeroMin),
        RecvMins |->
            IncHistIf(c.RecvNotZeroMins, recvMins, callInfo.RecvNotZeroMin),
        SendMaxs |-> IncHist(c.SendMaxs, callInfo.SendMax),
        RecvMaxs |-> IncHist(c.RecvMaxs, callInfo.RecvMax),
        SendNotZeroMins |-> c.SendNotZeroMins,
        RecvNotZeroMins |-> c.RecvNotZeroMins,
        CallSendSparsity |->
            IncHist(c.CallSendSparsity, callInfo.TotalSendZeroCounts),
        CallRecvSparsity |->
            IncHist(c.CallRecvSparsity, callInfo.TotalRecvZeroCounts),
        Patterns |-> AddPattern(c.Patterns, callNum,
                                callInfo.Patterns.SendPatterns,
                                callInfo.Patterns.RecvPatterns)]

\* one iteration of the loop: LookupCall succeeded
ParseCountFilesCall ==
    /\ pc = "loop"
    /\ i < NumCalls
    /\ \E rec \in Records :
          /\ record' = rec
          /\ cs' = ParseCall(cs, i, LookupCall(rec, DefaultMsgSizeThreshold))
    /\ i' = i + 1
    /\ pc' = "loop"
    /\ UNCHANGED notParse

\* one iteration of the loop: LookupCall failed, return cs, err
ParseCountFilesError ==
    /\ pc = "loop"
    /\ i < NumCalls
    /\ pc' = "error"
    /\ UNCHANGED <<i, record, cs>>
    /\ UNCHANGED notParse

\* the loop is over: return cs, nil
ParseCountFilesReturn ==
    /\ pc = "loop"
    /\ i = NumCalls
    /\ pc' = "done"
    /\ UNCHANGED <<i, record, cs>>
    /\ UNCHANGED notParse

Next ==
    \/ ParseCountFilesCall
    \/ ParseCountFilesError
    \/ ParseCountFilesReturn

Spec == Init /\ [][Next]_vars

----------------------------------------------------------------------------
(* Properties of addPattern, checked under SpecPatterns *)

\* the signature maps a and b are the same map
SameMap(a, b) == DOMAIN a = DOMAIN b /\ \A k \in DOMAIN a : a[k] = b[k]

\* positions of the table g whose signature pair is (s, r)
EqualTo(g, s, r) ==
    {k \in 1..Len(g.AllPatterns) :
        SameMap(g.AllPatterns[k].Send, s) /\ SameMap(g.AllPatterns[k].Recv, r)}

\* how often the pattern at position k is in the fan-out list
TimesInOneToN(g, k) == Cardinality({j \in 1..Len(g.OneToN) : g.OneToN[j] = k})

\* a and b agree wherever both have a key, and every key only one of them
\* has carries the value 0
DifferByZeroKeysOnly(a, b) ==
    /\ DOMAIN a # DOMAIN b
    /\ \A k \in DOMAIN a \cap DOMAIN b : a[k] = b[k]
    /\ \A k \in DOMAIN a \ DOMAIN b : a[k] = 0
    /\ \A k \in DOMAIN b \ DOMAIN a : b[k] = 0

\* C1: a record whose signature pair equals a stored pattern's creates no
\* pattern, adds 1 to that pattern's count and appends its call index to that
\* pattern's call list; a record equal to none adds exactly one pattern with
\* count 1 and calls [callIndex]; every other stored pattern is unchanged.
C1_ClassifyEffect ==
    [][nAdd' = nAdd + 1 =>
        LET old == gp.AllPatterns
            new == gp'.AllPatterns
            eq  == EqualTo(gp, lastAdd'.send, lastAdd'.recv)
        IN IF eq # {}
           THEN /\ Len(new) = Len(old)
                /\ \E k \in eq :
                     /\ new[k].Count = old[k].Count + 1
                     /\ new[k].Calls = Append(old[k].Calls, lastAdd'.callNum)
                     /\ \A j \in 1..Len(old) : j # k => new[j] = old[j]
           ELSE /\ Len(new) = Len(old) + 1
                /\ new[Len(new)].Count = 1
                /\ new[Len(new)].Calls = <<lastAdd'.callNum>>
                /\ SameMap(new[Len(new)].Send, lastAdd'.send)
                /\ SameMap(new[Len(new)].Recv, lastAdd'.recv)
                /\ \A j \in 1..Len(old) : new[j] = old[j]]_vars

\* C1 witness: two records with the same signatures made one pattern with
\* count 2 and calls [0, 1]; a third, different one made a second pattern
C1_Witness ==
    /\ Len(gp.AllPatterns) = 2
    /\ gp.AllPatterns[1].Count = 2
    /\ gp.AllPatterns[1].Calls = <<0, 1>>
    /\ gp.AllPatterns[2].Count = 1
    /\ gp.AllPatterns[2].Calls = <<2>>

\* C2: every stored pattern whose send signature has a pair (v, n) with
\* v > n*100 is in the fan-out list exactly once.
C2_FanOutExactlyOnce ==
    \A k \in 1..Len(gp.AllPatterns) :
        OneToNPairs(gp.AllPatterns[k].Send) # {} => TimesInOneToN(gp, k) = 1

\* C3: the table is ordered by first discovery: a call attributes the record
\* to the first stored pattern equal to it, a new pattern goes to the end, and
\* no stored pattern changes its position.
C3_DiscoveryOrder ==
    [][nAdd' = nAdd + 1 =>
        LET old == gp.AllPatterns
            new == gp'.AllPatterns
            eq  == EqualTo(gp, lastAdd'.send, lastAdd'.recv)
        IN /\ Len(new) \in {Len(old), Len(old) + 1}
           /\ \A k \in 1..Len(old) :
                 /\ SameMap(new[k].Send, old[k].Send)
                 /\ SameMap(new[k].Recv, old[k].Recv)
                 /\ new[k].Calls[1] = old[k].Calls[1]
           /\ eq # {} =>
                 /\ Len(new) = Len(old)
                 /\ \A k \in 1..Len(old) :
                       new[k].Count # old[k].Count => k = SetMin(eq)
           /\ eq = {} =>
                 /\ Len(new) = Len(old) + 1
                 /\ new[Len(new)].Calls = <<lastAdd'.callNum>>]_vars

\* C3 witness: the third record went to the first of two stored patterns,
\* which kept its place in front of the pattern discovered after it
C3_Witness ==
    /\ Len(gp.AllPatterns) = 2
    /\ gp.AllPatterns[1].Calls = <<0, 2>>
    /\ gp.AllPatterns[2].Calls = <<1>>

\* C4: a record is attributed to a stored pattern only if its send map and
\* its recv map both have the stored map's keys and values; a record with the
\* stored send map and another recv map, or with a map that differs from the
\* stored one by a key of value 0 only, makes a new pattern.
C4_FullEquality ==
    [][nAdd' = nAdd + 1 =>
        LET old == gp.AllPatterns
            new == gp'.AllPatterns
        IN /\ \A k \in 1..Len(old) :
                 new[k].Count # old[k].Count =>
                     /\ DOMAIN old[k].Send = DOMAIN lastAdd'.send
                     /\ \A x \in DOMAIN old[k].Send :
                           old[k].Send[x] = lastAdd'.send[x]
                     /\ DOMAIN old[k].Recv = DOMAIN lastAdd'.recv
                     /\ \A x \in DOMAIN old[k].Recv :
                           old[k].Recv[x] = lastAdd'.recv[x]
           /\ (\A k \in 1..Len(old) :
                 \/ ~SameMap(old[k].Send, lastAdd'.send)
                 \/ ~SameMap(old[k].Recv, lastAdd'.recv)
                 \/ DifferByZeroKeysOnly(old[k].Send, lastAdd'.send)
                 \/ DifferByZeroKeysOnly(old[k].Recv, lastAdd'.recv))
              => /\ Len(new) = Len(old) + 1
                 /\ \A k \in 1..Len(old) : new[k] = old[k]]_vars

\* C4 witness: two stored patterns with the same send map whose recv maps
\* differ by a key of value 0 only
C4_Witness ==
    \E k1, k2 \in 1..Len(gp.AllPatterns) :
        /\ k1 < k2
        /\ SameMap(gp.AllPatterns[k1].Send, gp.AllPatterns[k2].Send)
        /\ DOMAIN gp.AllPatterns[k1].Send # {}
        /\ DifferByZeroKeysOnly(gp.AllPatterns[k1].Recv, gp.AllPatterns[k2].Recv)

\* C5: a call removes nothing from the table or from the fan-out list and
\* leaves the Send and Recv maps of every stored pattern as they are; only
\* the matched pattern's Count and Calls change.
C5_NoRemovalNoMutation ==
    [][nAdd' = nAdd + 1 =>
        LET old == gp.AllPatterns
            new == gp'.AllPatterns
            eq  == EqualTo(gp, lastAdd'.send, lastAdd'.recv)
        IN /\ Len(new) >= Len(old)
           /\ Len(gp'.OneToN) >= Len(gp.OneToN)
           /\ \A j \in 1..Len(gp.OneToN) : gp'.OneToN[j] = gp.OneToN[j]
           /\ \A k \in 1..Len(old) :
                 /\ new[k].Send = old[k].Send
                 /\ new[k].Recv = old[k].Recv
                 /\ (new[k].Count # old[k].Count \/ new[k].Calls # old[k].Calls)
                       => k \in eq]_vars

\* C5 witness: a fan-out pattern stored first is still first in both lists
\* after a later pattern was added and after it matched again
C5_Witness ==
    /\ Len(gp.AllPatterns) = 2
    /\ Len(gp.OneToN) >= 2
    /\ gp.OneToN[1] = 1
    /\ gp.OneToN[Len(gp.OneToN)] = 2
    /\ gp.AllPatterns[1].Count = 2

----------------------------------------------------------------------------
(* Properties of ParseCountFiles, checked under Spec *)

\* the histogram h2 is h with the key k incremented by 1, created with the
\* value 1 when h has no such key, and every other key as in h
IncrementedAt(h, h2, k) ==
    /\ DOMAIN h2 = DOMAIN h \cup {k}
    /\ h2[k] = (IF k \in DOMAIN h THEN h[k] ELSE 0) + 1
    /\ \A x \in DOMAIN h \ {k} : h2[x] = h[x]

\* number of send counter values of the calls counted in c: a call on a
\* communicator of size n has n*n of them
TotalSendCounters(c) ==
    SumMap([n \in DOMAIN c.CommSizes |-> n * n * c.CommSizes[n]])

\* C6: after N records each of the four min histograms (send, recv, send
\* excluding zero, recv excluding zero) holds N counts.
C6_MinHistogramsSumToN ==
    /\ SumMap(cs.SendMins) = i
    /\ SumMap(cs.RecvMins) = i
    /\ SumMap(cs.SendNotZeroMins) = i
    /\ SumMap(cs.RecvNotZeroMins) = i

\* C7: each record increments one key of the send datatype size histogram,
\* of the recv datatype size histogram and of the communicator size
\* histogram by 1, its own sizes, so each histogram sums to the number of
\* records consumed.
C7_SizeHistograms ==
    [][i' = i + 1 =>
        /\ IncrementedAt(cs.DatatypesSend, cs'.DatatypesSend, record'.sendDt)
        /\ IncrementedAt(cs.DatatypesRecv, cs'.DatatypesRecv, record'.recvDt)
        /\ IncrementedAt(cs.CommSizes, cs'.CommSizes, record'.commSize)
        /\ SumMap(cs'.DatatypesSend) = i'
        /\ SumMap(cs'.DatatypesRecv) = i'
        /\ SumMap(cs'.CommSizes) = i']_vars

\* C7 witness: two records with send datatype size 8, with two recv datatype
\* sizes and two communicator sizes
C7_Witness ==
    /\ i = 2
    /\ cs.DatatypesSend = (8 :> 2)
    /\ cs.DatatypesRecv = (8 :> 1) @@ (20 :> 1)
    /\ cs.CommSizes = (1 :> 1) @@ (2 :> 1)

\* C8: every send counter c of a call with datatype size d is counted once,
\* as small when c*d is below the threshold and as large otherwise, and the
\* small and large totals add up to the number of send counters processed.
C8_SmallLarge ==
    [][i' = i + 1 =>
        LET small == {k \in DOMAIN record'.send :
                         record'.send[k] * record'.sendDt < DefaultMsgSizeThreshold}
            large == {k \in DOMAIN record'.send :
                         record'.send[k] * record'.sendDt >= DefaultMsgSizeThreshold}
        IN /\ cs'.NumSendSmallMsgs = cs.NumSendSmallMsgs + Cardinality(small)
           /\ cs'.NumSendLargeMsgs = cs.NumSendLargeMsgs + Cardinality(large)
           /\ cs'.NumSendSmallMsgs + cs'.NumSendLargeMsgs
                 = TotalSendCounters(cs')]_vars

\* C8 witness: a call with datatype size 8 and the counters 10 30 10 30 gave
\* two small messages (80 bytes) and two large ones (240 bytes)
C8_Witness ==
    /\ i = 1
    /\ record.sendDt = 8
    /\ record.send = <<10, 30, 10, 30>>
    /\ cs.NumSendSmallMsgs = 2
    /\ cs.NumSendLargeMsgs = 2

----------------------------------------------------------------------------
(* The report writers called by SaveCounterStats:                          *)
(* writeDatatypeToFile, writeCommunicatorSizesToFile, writeCountStatsToFile *)

\* the maps the writers range over, in the order of the loops
RangedMaps ==
    <<"DatatypesSend", "DatatypesRecv", "CommSizes",
      "CallSendSparsity", "CallRecvSparsity",
      "SendMins", "RecvMins", "SendNotZeroMins", "RecvNotZeroMins",
      "SendMaxs", "RecvMaxs">>

\* a line without a map entry in it
TextLine(text) == [hist |-> text, key |-> 0, n |-> 0]

\* the line a loop writes for the entry (key, n) of the map hist
EntryLine(hist, key, n) == [hist |-> hist, key |-> key, n |-> n]

\* the lines written between the end of loop k - 1 and the start of loop k
LinesBefore(c, k) ==
    CASE k = 1 -> <<TextLine("Total number of alltoallv calls"),
                    TextLine("# Datatypes")>>
      [] k = 3 -> <<TextLine(""), TextLine("# Communicator size(s)")>>
      [] k = 4 -> <<TextLine(""), TextLine("# Message sizes"),
                    EntryLine("large", c.NumSendSmallMsgs + c.NumSendLargeMsgs,
                              c.NumSendLargeMsgs),
                    EntryLine("small", c.NumSendSmallMsgs + c.NumSendLargeMsgs,
                              c.NumSendSmallMsgs),
                    EntryLine("small, but not 0-size",
                              c.NumSendSmallMsgs + c.NumSendLargeMsgs,
                              c.NumSendSmallNotZeroMsgs),
                    TextLine("# Sparsity")>>
      [] k = 6 -> <<TextLine("# Min/max")>>
      [] OTHER -> <<>>

\* the CountStats the writers are started on: what ParseCountFiles returns
\* for two calls on a communicator of size 1
StatsToWrite ==
    {ParseCall(ParseCall(newCountStats, 0,
                         LookupCall(r0, DefaultMsgSizeThreshold)), 1,
               LookupCall(r1, DefaultMsgSizeThreshold)) :
        r0 \in {r \in Records : r.commSize = 1},
        r1 \in {r \in Records : r.commSize = 1}}

InitWrite ==
    /\ wpc = "idle"
    /\ wmap = 0
    /\ wcs \in StatsToWrite
    /\ todo = {}
    /\ out = <<>>

\* SaveCounterStats starts: the first lines, then the first loop
WriteStart ==
    /\ wpc = "idle"
    /\ wpc' = "range"
    /\ wmap' = 1
    /\ out' = LinesBefore(wcs, 1)
    /\ todo' = DOMAIN wcs[RangedMaps[1]]
    /\ UNCHANGED wcs
    /\ UNCHANGED notWrite

\* one iteration of `for key, n := range m`: range yields the entries of a
\* map in an order the language leaves open
WriteEntry ==
    /\ wpc = "range"
    /\ \E key \in todo :
          /\ out' = Append(out, EntryLine(RangedMaps[wmap], key,
                                          wcs[RangedMaps[wmap]][key]))
          /\ todo' = todo \ {key}
    /\ UNCHANGED <<wpc, wmap, wcs>>
    /\ UNCHANGED notWrite

\* a loop is over: the lines up to the next loop, or the end of the report
WriteNextMap ==
    /\ wpc = "range"
    /\ todo = {}
    /\ IF wmap < Len(RangedMaps)
       THEN /\ wmap' = wmap + 1
            /\ out' = out \o LinesBefore(wcs, wmap + 1)
            /\ todo' = DOMAIN wcs[RangedMaps[wmap + 1]]
            /\ UNCHANGED wpc
       ELSE /\ wpc' = "done"
            /\ UNCHANGED <<wmap, out, todo>>
    /\ UNCHANGED wcs
    /\ UNCHANGED notWrite

\* fd.WriteString failed: the writer returns the error
WriteError ==
    /\ wpc = "range"
    /\ wpc' = "error"
    /\ UNCHANGED <<wmap, wcs, todo, out>>
    /\ UNCHANGED notWrite

NextWrite ==
    \/ WriteStart
    \/ WriteEntry
    \/ WriteNextMap
    \/ WriteError

InitSpecWrite == InitParse /\ InitPat /\ InitWrite /\ MergeIdle /\ ToolsIdle /\ MoreIdle

SpecWrite == InitSpecWrite /\ [][NextWrite]_vars

\* C9: the entries of each histogram are written in ascending key order.
C9_AscendingKeys ==
    \A p, q \in 1..Len(out) :
        (p < q /\ out[p].hist = out[q].hist
               /\ \E k \in 1..Len(RangedMaps) : RangedMaps[k] = out[p].hist)
            => out[p].key < out[q].key

----------------------------------------------------------------------------
(* Merging CountStats (spec 4.4): the pointwise sum of the histograms and  *)
(* of the message totals                                                   *)

HistogramFields ==
    {"CommSizes", "DatatypesSend", "DatatypesRecv",
     "CallSendSparsity", "CallRecvSparsity",
     "SendMins", "RecvMins", "SendMaxs", "RecvMaxs",
     "SendNotZeroMins", "RecvNotZeroMins"}

TotalFields ==
    {"NumSendSmallMsgs", "NumSendLargeMsgs", "NumSendSmallNotZeroMsgs"}

\* the count a histogram holds for a key: 0 for a key it does not have
CountAt(h, k) == IF k \in DOMAIN h THEN h[k] ELSE 0

\* mutant: a key only the second histogram has is dropped
MergeHistKeysOfFirst(h1, h2) ==
    [k \in DOMAIN h1 |-> h1[k] + CountAt(h2, k)]

\* the histogram holding, for every key of either, the sum of the counts
MergeHist(h1, h2) ==
    [k \in DOMAIN h1 \cup DOMAIN h2 |-> CountAt(h1, k) + CountAt(h2, k)]

\* merge of two CountStats
Merge(a, b) ==
    [f \in HistogramFields \cup TotalFields |->
        IF f \in HistogramFields THEN MergeHist(a[f], b[f]) ELSE a[f] + b[f]]

\* the CountStats that are merged: the empty one and what ParseCountFiles
\* returns for one call
StatsToMerge ==
    {newCountStats} \cup
    {ParseCall(newCountStats, 0, LookupCall(r, DefaultMsgSizeThreshold)) :
        r \in {x \in Records : x.commSize = 1 \/ x.send = <<0, 10, 10, 30>>}}

InitMerge ==
    /\ mA \in StatsToMerge
    /\ mB \in StatsToMerge
    /\ mC \in StatsToMerge
    /\ mOut = <<>>

\* the merges of mA, mB and mC in both groupings and both orders
MergeAll ==
    /\ mOut = <<>>
    /\ mOut' = [ab |-> Merge(mA, mB),
                ba |-> Merge(mB, mA),
                ab_c |-> Merge(Merge(mA, mB), mC),
                a_bc |-> Merge(mA, Merge(mB, mC))]
    /\ UNCHANGED <<mA, mB, mC>>
    /\ UNCHANGED notMerge

InitSpecMerge == InitParse /\ InitPat /\ WriteIdle /\ InitMerge /\ ToolsIdle /\ MoreIdle

SpecMerge == InitSpecMerge /\ [][MergeAll]_vars

\* C10: the merge is the pointwise sum of every histogram (0 for a key one
\* side does not have) and of every total, and it is associative and
\* commutative.
C10_MergeSum ==
    mOut # <<>> =>
        /\ \A f \in HistogramFields :
              /\ DOMAIN mOut.ab[f] = DOMAIN mA[f] \cup DOMAIN mB[f]
              /\ \A k \in DOMAIN mA[f] \cup DOMAIN mB[f] :
                    mOut.ab[f][k] = CountAt(mA[f], k) + CountAt(mB[f], k)
        /\ \A f \in TotalFields : mOut.ab[f] = mA[f] + mB[f]
        /\ mOut.ab = mOut.ba
        /\ mOut.ab_c = mOut.a_bc

\* C10 witness: three different CountStats were merged, two of them sharing
\* a datatype size and differing in another key
C10_Witness ==
    /\ mOut # <<>>
    /\ mA # mB /\ mB # mC /\ mA # mC
    /\ DOMAIN mA.DatatypesSend \cap DOMAIN mB.DatatypesSend # {}
    /\ DOMAIN mA.CommSizes # DOMAIN mB.CommSizes
    /\ DOMAIN mC.CommSizes # {}
    /\ \E k \in DOMAIN mOut.ab_c.DatatypesSend : mOut.ab_c.DatatypesSend[k] = 2

----------------------------------------------------------------------------
(* Strings.  A C or Go string is a TLA+ string; Len, \o and SubSeq apply.  *)
(* The library functions are modelled by what they compute.                *)

Ch(s, k) == SubSeq(s, k, k)

DigitChars == "0123456789"

IsDigit(c) == \E d \in 1..Len(DigitChars) : Ch(DigitChars, d) = c

DigitVal(c) == (CHOOSE d \in 1..Len(DigitChars) : Ch(DigitChars, d) = c) - 1

\* sprintf("%d", n)
RECURSIVE Itoa(_)
Itoa(n) ==
    IF n < 0 THEN "-" \o Itoa(0 - n)
    ELSE IF n < Len(DigitChars) THEN Ch(DigitChars, n + 1)
    ELSE Itoa(n \div Len(DigitChars)) \o Ch(DigitChars, (n % Len(DigitChars)) + 1)

RECURSIVE DigitsVal(_)
DigitsVal(s) ==
    IF s = "" THEN 0
    ELSE DigitsVal(SubSeq(s, 1, Len(s) - 1)) * Len(DigitChars)
         + DigitVal(Ch(s, Len(s)))

AllDigits(s) == s # "" /\ \A k \in 1..Len(s) : IsDigit(Ch(s, k))

\* strconv.Atoi: an optional sign and at least one decimal digit
Atoi(s) ==
    LET sign == IF s # "" /\ Ch(s, 1) \in {"+", "-"} THEN Ch(s, 1) ELSE ""
        body == IF sign = "" THEN s ELSE SubSeq(s, 2, Len(s))
    IN  IF AllDigits(body)
        THEN [ok |-> TRUE,
              val |-> IF sign = "-" THEN 0 - DigitsVal(body) ELSE DigitsVal(body)]
        ELSE [ok |-> FALSE, val |-> 0]

HasAt(s, sub, k) ==
    k + Len(sub) - 1 <= Len(s) /\ SubSeq(s, k, k + Len(sub) - 1) = sub

\* strings.Index, 1-based, 0 when sub does not occur
Index(s, sub) ==
    IF \E k \in 1..Len(s) : HasAt(s, sub, k)
    THEN CHOOSE k \in 1..Len(s) :
            HasAt(s, sub, k) /\ \A j \in 1..(k - 1) : ~HasAt(s, sub, j)
    ELSE 0

\* strings.Split with a non-empty separator
RECURSIVE Split(_, _)
Split(s, sep) ==
    LET k == Index(s, sep)
    IN  IF k = 0 THEN <<s>>
        ELSE <<SubSeq(s, 1, k - 1)>> \o Split(SubSeq(s, k + Len(sep), Len(s)), sep)

\* strings.ReplaceAll with a non-empty old
RECURSIVE ReplaceAll(_, _, _)
ReplaceAll(s, old, new) ==
    LET k == Index(s, old)
    IN  IF k = 0 THEN s
        ELSE SubSeq(s, 1, k - 1) \o new
             \o ReplaceAll(SubSeq(s, k + Len(old), Len(s)), old, new)

InCutset(c, cutset) == \E k \in 1..Len(cutset) : Ch(cutset, k) = c

RECURSIVE TrimRight(_, _)
TrimRight(s, cutset) ==
    IF s # "" /\ InCutset(Ch(s, Len(s)), cutset)
    THEN TrimRight(SubSeq(s, 1, Len(s) - 1), cutset)
    ELSE s

RECURSIVE TrimLeft(_, _)
TrimLeft(s, cutset) ==
    IF s # "" /\ InCutset(Ch(s, 1), cutset)
    THEN TrimLeft(SubSeq(s, 2, Len(s)), cutset)
    ELSE s

----------------------------------------------------------------------------
(* The compact notation.                                                   *)
(* compress_int_array is the capture library's encoder.  The decoder,      *)
(* notation.ConvertCompressedCallListToIntSlice, is modelled from the      *)
(* description of the notation.                                            *)

\* largest id and longest list handed to compress_int_array
MaxId == 3
MaxIdsLen == 3

StrictlyAscending(x) == \A k \in 1..(Len(x) - 1) : x[k] < x[k + 1]

SeqsUpTo(S, n) == UNION {[1..m -> S] : m \in 0..n}

CodecInputs ==
    SeqsUpTo(0..MaxId, MaxIdsLen) \cup {<<1, 2, 3, 5, 7, 8, 9>>, <<1, 2, 3, 3, 3>>}

\* A char *: NULL, a string, a pointer to no string, or the process died
Null == [kind |-> "null", s |-> ""]
Str(s) == [kind |-> "str", s |-> s]
Wild == [kind |-> "wild", s |-> ""]
Crash == [kind |-> "crash", s |-> ""]

\* compressedRep is not initialised: NULL, some string, or no string at all
UninitPointers == {Null, Str("#"), Wild}

\* what lies behind the array in memory: array[i + 1] reads it
TailVals == {0, 7}
Tails == SeqsUpTo(TailVals, 2) \ {<<>>}

\* sprintf(&(str[len - 1]), text): text replaces the last character of str
\* and what follows; with len = 0 its first character lands before str
PrintOverLast(str, text) ==
    IF str.kind # "str" THEN Crash
    ELSE IF str.s = "" THEN Str(SubSeq(text, 2, Len(text)))
    ELSE Str(SubSeq(str.s, 1, Len(str.s) - 1) \o text)

add_range(str, start, end) ==
    IF str.kind = "null" THEN Str(Itoa(start) \o "-" \o Itoa(end))
    ELSE PrintOverLast(str, ", " \o Itoa(start) \o "-" \o Itoa(end))

add_singleton(str, n) ==
    IF str.kind = "null" THEN Str(Itoa(n))
    ELSE PrintOverLast(str, ", " \o Itoa(n))

\* while (array[i] = array[i + 1]) i++ : the i the loop stops with, -1 when
\* it runs off the memory.  mem[k + 1] is array[k].  The cells the loop
\* writes, array[i], are the ones it has read already.
RECURSIVE RunStop(_, _)
RunStop(mem, k) ==
    IF k + 2 > Len(mem) THEN -1
    ELSE IF mem[k + 2] = 0 THEN k
    ELSE RunStop(mem, k + 1)

RECURSIVE CompressLoop(_, _, _, _)
CompressLoop(mem, size, start, rep) ==
    IF start >= size \/ rep.kind = "crash" THEN rep
    ELSE LET k == RunStop(mem, start)
         IN  IF k = -1 THEN Crash
             ELSE CompressLoop(mem, size, k + 1,
                               IF k # start THEN add_range(rep, start, k)
                               ELSE add_singleton(rep, k))

compress_int_array(array, rep0, tail) ==
    CompressLoop(array \o tail, Len(array), 0, rep0)

BadList == [ok |-> FALSE, ids |-> <<>>]

\* one token of the notation: "a" or "a-b" with a <= b
ExpandToken(tok) ==
    LET p == Split(tok, "-")
        a == Atoi(p[1])
        b == Atoi(p[Len(p)])
    IN  IF Len(p) > 2 \/ ~a.ok \/ ~b.ok \/ a.val > b.val THEN BadList
        ELSE [ok |-> TRUE, ids |-> [k \in 1..(b.val - a.val + 1) |-> a.val + k - 1]]

RECURSIVE ConcatTokens(_)
ConcatTokens(toks) ==
    IF toks = <<>> THEN [ok |-> TRUE, ids |-> <<>>]
    ELSE LET h == ExpandToken(Head(toks))
             t == ConcatTokens(Tail(toks))
         IN  IF h.ok /\ t.ok THEN [ok |-> TRUE, ids |-> h.ids \o t.ids]
             ELSE BadList

ConvertCompressedCallListToIntSlice(s) ==
    IF s = "" THEN [ok |-> TRUE, ids |-> <<>>]
    ELSE LET r == ConcatTokens(Split(s, ", "))
         IN  IF r.ok /\ StrictlyAscending(r.ids) THEN r ELSE BadList

InitCodec ==
    /\ cpc = "in"
    /\ cIn \in CodecInputs
    /\ cOut = NoResult
    /\ cBack = NoDecoding

CompressIntArrayCall ==
    /\ cpc = "in"
    /\ \E rep0 \in UninitPointers, tail \in Tails :
          cOut' = compress_int_array(cIn, rep0, tail)
    /\ cpc' = "out"
    /\ UNCHANGED <<cIn, cBack>>
    /\ UNCHANGED notCodec

\* the reader decodes the rank list that was written
ConvertCall ==
    /\ cpc = "out"
    /\ cOut.kind = "str"
    /\ cBack' = ConvertCompressedCallListToIntSlice(cOut.s)
    /\ cpc' = "back"
    /\ UNCHANGED <<cIn, cOut>>
    /\ UNCHANGED notCodec

NextCodec == CompressIntArrayCall \/ ConvertCall

AnalysisIdle == InitParse /\ InitPat /\ WriteIdle /\ MergeIdle

\* every component idle but the one that runs
IdleButTest ==
    AnalysisIdle /\ CodecIdle /\ FileIdle /\ NameIdle /\ LoadIdle /\ ValIdle /\ ConvIdle /\ InsIdle /\ ProfIdle /\ ScaleIdle

IdleButConv ==
    AnalysisIdle /\ ToolsIdle /\ TestIdle /\ InsIdle /\ ProfIdle /\ ScaleIdle

IdleButIns ==
    AnalysisIdle /\ ToolsIdle /\ TestIdle /\ ConvIdle /\ ProfIdle /\ ScaleIdle

IdleButProf ==
    AnalysisIdle /\ ToolsIdle /\ TestIdle /\ ConvIdle /\ InsIdle /\ ScaleIdle

IdleButScale ==
    AnalysisIdle /\ ToolsIdle /\ TestIdle /\ ConvIdle /\ InsIdle /\ ProfIdle

InitSpecCodec ==
    AnalysisIdle /\ MoreIdle /\ InitCodec /\ FileIdle /\ NameIdle /\ LoadIdle /\ ValIdle
    /\ GroupIdle

SpecCodec == InitSpecCodec /\ [][NextCodec]_vars

\* the notation of a strictly ascending list: maximal runs of consecutive
\* ids as "first-last", isolated ids in decimal, joined with ", "
RECURSIVE RunEnd(_, _)
RunEnd(x, k) ==
    IF k < Len(x) /\ x[k + 1] = x[k] + 1 THEN RunEnd(x, k + 1) ELSE k

RECURSIVE NotationFrom(_, _)
NotationFrom(x, k) ==
    IF k > Len(x) THEN ""
    ELSE LET e == RunEnd(x, k)
             tok == IF e > k THEN Itoa(x[k]) \o "-" \o Itoa(x[e]) ELSE Itoa(x[k])
         IN  IF e = Len(x) THEN tok ELSE tok \o ", " \o NotationFrom(x, e + 1)

CompactNotation(x) == NotationFrom(x, 1)

\* C11: for a strictly ascending list x of distinct ids (the empty one
\* included) compress returns a string, decoding it gives x back, and
\* compressing the decoded list gives the same string again.
C11_RoundTrip ==
    (cpc \in {"out", "back"} /\ StrictlyAscending(cIn)) =>
        /\ cOut.kind = "str"
        /\ cpc = "back" =>
              /\ cBack.ok
              /\ cBack.ids = cIn
              /\ \A rep0 \in UninitPointers, tail \in Tails :
                    compress_int_array(cBack.ids, rep0, tail) = cOut

\* C12: compress renders every maximal run of at least two consecutive ids
\* as "first-last" with the ids' values, every isolated id in decimal, and
\* joins the tokens with ", "; <<1,2,3,5,7,8,9>> gives "1-3, 5, 7-9".
C12_Rendering ==
    (cpc \in {"out", "back"} /\ StrictlyAscending(cIn)) =>
        /\ cOut = Str(CompactNotation(cIn))
        /\ cIn = <<1, 2, 3, 5, 7, 8, 9>> => cOut = Str("1-3, 5, 7-9")

\* C13: compress rejects a list that is not strictly ascending: it reports
\* an error and returns no string.
C13_RejectsUnsorted ==
    (cpc \in {"out", "back"} /\ ~StrictlyAscending(cIn)) => cOut.kind = "null"

----------------------------------------------------------------------------
(* The send counters file: written by log_data/_log_data of the capture    *)
(* library, read by GetBins.  The file is the sequence of its lines, each  *)
(* with its newline.  datafilereader.GetHeader and GetCounters are         *)
(* modelled from the description of the file format.                       *)

\* number of call indices _log_data lists at most
MAX_TRACKED_CALLS == 2
\* largest number of calls of one block
MaxCount == 3

Min(a, b) == IF a < b THEN a ELSE b

\* a counts_data_t: the ranks that share one series of counters
CountsData(ranks, counters) == [ranks |-> ranks, counters |-> counters]

\* the arguments of one _log_data call
LogArgs(size, count, data) ==
    [size |-> size, startcall |-> 0, endcall |-> count, count |-> count,
     calls |-> [k \in 1..Min(count, MAX_TRACKED_CALLS) |-> k - 1],
     counters |-> data]

SeriesOf(size) ==
    IF size = 1
    THEN {<<CountsData(<<0>>, <<v>>)>> : v \in {0, 10}}
    ELSE {<<CountsData(<<0, 1>>, <<10, 10>>)>>,
          <<CountsData(<<0, 1>>, <<0, 30>>)>>,
          <<CountsData(<<0>>, <<0, 10>>), CountsData(<<1>>, <<10, 0>>)>>}

AllLogArgs ==
    UNION {{LogArgs(size, count, data) :
               count \in 1..MaxCount, data \in SeriesOf(size)} :
           size \in CommSizeSet}

\* counters_list: one node, or a node followed by a one-rank node
CountersLists ==
    {<<a>> : a \in AllLogArgs} \cup
    {<<a, LogArgs(1, 1, <<CountsData(<<0>>, <<10>>)>>)>> : a \in AllLogArgs}

RECURSIVE PrintInts(_)
\* fprintf(fh, "%d ", v) for each v
PrintInts(vals) ==
    IF vals = <<>> THEN ""
    ELSE Itoa(Head(vals)) \o " " \o PrintInts(Tail(vals))

\* the Count line printing max_loop as the count
CountLineOfListed(count, calls) ==
    "Count: " \o Itoa(Min(count, MAX_TRACKED_CALLS)) \o " calls - "
    \o PrintInts(SubSeq(calls, 1, Min(count, MAX_TRACKED_CALLS))) \o "\n"

CountLine(count, calls) ==
    LET max_loop == IF count > MAX_TRACKED_CALLS THEN MAX_TRACKED_CALLS ELSE count
    IN  "Count: " \o Itoa(count) \o " calls - "
        \o PrintInts(SubSeq(calls, 1, max_loop))
        \o (IF count > MAX_TRACKED_CALLS
            THEN "... (" \o Itoa(count - MAX_TRACKED_CALLS)
                 \o " more call(s) was/were profiled but not tracked)"
            ELSE "")
        \o "\n"

LogHeader(a) ==
    <<"# Raw counters\n", "\n",
      "Number of ranks: " \o Itoa(a.size) \o "\n",
      "Alltoallv calls " \o Itoa(a.startcall) \o "-" \o Itoa(a.endcall - 1) \o "\n",
      CountLine(a.count, a.calls),
      "\n", "BEGINNING DATA\n">>

\* fprintf(fh, "Rank(s) %s: ", str) and the size counters of the series
RanksLine(str, size, counters) ==
    "Rank(s) " \o (IF str.kind = "str" THEN str.s ELSE "(null)") \o ": "
    \o PrintInts(SubSeq(counters, 1, size)) \o "\n"

InitLog ==
    /\ lpc = "header"
    /\ lList \in CountersLists
    /\ lNode = 1
    /\ lIdx = 0
    /\ fh = <<>>
    /\ hurt = "none"

LogDataHeader ==
    /\ lpc = "header"
    /\ fh' = fh \o LogHeader(lList[lNode])
    /\ lIdx' = 1
    /\ lpc' = "data"
    /\ UNCHANGED <<lList, lNode, hurt, bpc, reader, blk, bins, numCalls>>
    /\ UNCHANGED notFile

\* one turn of the loop over the series: compress_int_array may crash,
\* and then nothing more is written
LogDataLine ==
    /\ lpc = "data"
    /\ lIdx <= Len(lList[lNode].counters)
    /\ \E rep0 \in UninitPointers, tail \in Tails :
          LET d == lList[lNode].counters[lIdx]
              str == compress_int_array(d.ranks, rep0, tail)
          IN  IF str.kind \in {"crash", "wild"}
              THEN /\ lpc' = "crashed"
                   /\ UNCHANGED <<fh, lIdx>>
              ELSE /\ fh' = Append(fh, RanksLine(str, lList[lNode].size, d.counters))
                   /\ lIdx' = lIdx + 1
                   /\ UNCHANGED lpc
    /\ UNCHANGED <<lList, lNode, hurt, bpc, reader, blk, bins, numCalls>>
    /\ UNCHANGED notFile

\* END DATA, and log_data moves to the next node of counters_list
LogDataEnd ==
    /\ lpc = "data"
    /\ lIdx > Len(lList[lNode].counters)
    /\ fh' = Append(fh, "END DATA\n")
    /\ lNode' = lNode + 1
    /\ lpc' = IF lNode < Len(lList) THEN "header" ELSE "closed"
    /\ UNCHANGED <<lList, lIdx, hurt, bpc, reader, blk, bins, numCalls>>
    /\ UNCHANGED notFile

IsRanksLine(l) == HasAt(l, "Rank(s) ", 1)

\* text put before the newline of a line
AddToLine(l, text) == SubSeq(l, 1, Len(l) - 1) \o text \o "\n"

RemoveAt(s, k) == SubSeq(s, 1, k - 1) \o SubSeq(s, k + 1, Len(s))

\* the file is changed between the run and the analysis: a counter or a
\* word is added to a line, or an END DATA line is lost
Damage ==
    /\ lpc = "closed"
    /\ bpc = "idle"
    /\ hurt = "none"
    /\ \E k \in 1..Len(fh) :
          \/ /\ IsRanksLine(fh[k])
             /\ \E w \in {"more", "word"} :
                   /\ fh' = [fh EXCEPT ![k] = AddToLine(@, IF w = "more" THEN "10 " ELSE "x ")]
                   /\ hurt' = w
          \/ /\ fh[k] = "END DATA\n"
             /\ fh' = RemoveAt(fh, k)
             /\ hurt' = "cut"
    /\ UNCHANGED <<lpc, lList, lNode, lIdx, bpc, reader, blk, bins, numCalls>>
    /\ UNCHANGED notFile

\* the bin limits handed to GetBins
ListBinsSet ==
    {<<DefaultMsgSizeThreshold>>, <<100, DefaultMsgSizeThreshold, 500>>}

createBins(listBins) ==
    [k \in 1..(Len(listBins) + 1) |->
        [Min |-> IF k = 1 THEN 0 ELSE listBins[k - 1],
         Max |-> IF k <= Len(listBins) THEN listBins[k] ELSE -1,
         Size |-> 0]]

StartsHeader(l) == HasAt(l, "#", 1) \/ HasAt(l, "Number of ranks: ", 1)

RECURSIVE SkipTo(_, _)
\* the first line from pos on that is neither blank nor a comment
SkipTo(file, pos) ==
    IF pos > Len(file) THEN pos
    ELSE IF file[pos] = "\n" \/ HasAt(file[pos], "#", 1) THEN SkipTo(file, pos + 1)
    ELSE pos

\* datafilereader.GetHeader: the three header lines; numCalls is the
\* number in front of "calls", whatever the list behind it holds
GetHeader(file, pos) ==
    LET p == SkipTo(file, pos)
        bad == [err |-> "format", numCalls |-> 0, commSize |-> 0, pos |-> p]
    IN  IF p > Len(file)
        THEN [err |-> "EOF", numCalls |-> 0, commSize |-> 0, pos |-> p]
        ELSE IF \/ p + 2 > Len(file)
                \/ ~HasAt(file[p], "Number of ranks: ", 1)
                \/ ~HasAt(file[p + 1], "Alltoallv calls ", 1)
                \/ ~HasAt(file[p + 2], "Count: ", 1)
        THEN bad
        ELSE LET size == Atoi(TrimRight(Split(file[p], ": ")[2], "\n"))
                 toks == Split(file[p + 2], " ")
                 n == Atoi(toks[2])
             IN  IF size.ok /\ n.ok /\ Len(toks) >= 3 /\ toks[3] = "calls"
                 THEN [err |-> "nil", numCalls |-> n.val,
                       commSize |-> size.val, pos |-> p + 3]
                 ELSE bad

RECURSIVE DataStop(_, _)
\* where the data that starts at pos stops: at END DATA, at the next
\* header, or behind the last line of the file
DataStop(file, pos) ==
    IF pos > Len(file) \/ StartsHeader(file[pos]) \/ file[pos] = "END DATA\n"
    THEN pos
    ELSE DataStop(file, pos + 1)

\* datafilereader.GetCounters: the lines between BEGINNING DATA and END
\* DATA; an error when the file ends or a header starts before END DATA
GetCounters(file, pos) ==
    LET p == SkipTo(file, pos)
        e == DataStop(file, p + 1)
    IN  IF p > Len(file) \/ file[p] # "BEGINNING DATA\n"
        THEN [err |-> "format", counters |-> <<>>, pos |-> p]
        ELSE IF e > Len(file) \/ file[e] # "END DATA\n"
        THEN [err |-> "format", counters |-> SubSeq(file, p + 1, e - 1), pos |-> e]
        ELSE [err |-> "nil", counters |-> SubSeq(file, p + 1, e - 1), pos |-> e + 1]

\* mutant: every bin whose lower limit the value reaches gets it
AddToBinAbove(b, val, n) ==
    [k \in 1..Len(b) |->
        IF val >= b[k].Min THEN [b[k] EXCEPT !.Size = @ + n] ELSE b[k]]

\* the first bin the value falls in gets numCalls * nRanks more
AddToBin(b, val, n) ==
    LET hit == {k \in 1..Len(b) :
                   \/ b[k].Max # -1 /\ b[k].Min <= val /\ val < b[k].Max
                   \/ b[k].Max = -1 /\ val >= b[k].Min}
    IN  IF hit = {} THEN b
        ELSE [b EXCEPT ![SetMin(hit)].Size = @ + n]

RECURSIVE BinCounts(_, _, _, _)
\* the loop over strings.Split(counts, " ")
BinCounts(b, toks, n, datatypeSize) ==
    IF toks = <<>> THEN [err |-> "nil", bins |-> b]
    ELSE IF Head(toks) = "" THEN BinCounts(b, Tail(toks), n, datatypeSize)
    ELSE LET countVal == Atoi(Head(toks))
         IN  IF ~countVal.ok THEN [err |-> "atoi", bins |-> b]
             ELSE BinCounts(AddToBin(b, countVal.val * datatypeSize, n),
                            Tail(toks), n, datatypeSize)

\* one counters line of GetBins
BinLine(b, c, nCalls, datatypeSize) ==
    LET tokens == Split(c, ": ")
        counts == TrimRight(tokens[2], "\n")
        ranks == TrimLeft(tokens[1], "Rank(s) ")
        listRanks == ConvertCompressedCallListToIntSlice(ranks)
    IN  IF Len(tokens) < 2 THEN [err |-> "panic", bins |-> b]
        ELSE IF ~listRanks.ok THEN [err |-> "notation", bins |-> b]
        ELSE BinCounts(b, Split(counts, " "), nCalls * Len(listRanks.ids),
                       datatypeSize)

RECURSIVE BinLines(_, _, _, _)
BinLines(b, counters, nCalls, datatypeSize) ==
    IF counters = <<>> THEN [err |-> "nil", bins |-> b]
    ELSE LET r == BinLine(b, Head(counters), nCalls, datatypeSize)
         IN  IF r.err # "nil" THEN r
             ELSE BinLines(r.bins, Tail(counters), nCalls, datatypeSize)

\* the loop over the lines of a block that does not test the error of
\* GetCounters
BinBlockOfTruncated(b, c, nCalls, datatypeSize) ==
    BinLines(b, c.counters, nCalls, datatypeSize)

\* if err != nil { return bins, err }, then the loop over the lines
BinBlock(b, c, nCalls, datatypeSize) ==
    IF c.err # "nil" THEN [err |-> c.err, bins |-> b]
    ELSE BinLines(b, c.counters, nCalls, datatypeSize)

InitReader ==
    /\ bpc = "idle"
    /\ reader = 0
    /\ blk = 0
    /\ bins = <<>>
    /\ numCalls = 0

GetBinsOpen ==
    /\ bpc = "idle"
    /\ lpc \in {"closed", "crashed"}
    /\ \E listBins \in ListBinsSet : bins' = createBins(listBins)
    /\ reader' = 1
    /\ bpc' = "loop"
    /\ UNCHANGED <<lpc, lList, lNode, lIdx, fh, hurt, blk, numCalls>>
    /\ UNCHANGED notFile

\* one turn of the for loop of GetBins, or its return.  The datatype size
\* comes from GetHeader; the lines _log_data writes do not hold it.
GetBinsBlock ==
    /\ bpc = "loop"
    /\ LET h == GetHeader(fh, reader)
           c == GetCounters(fh, h.pos)
       IN  IF h.err = "EOF"
           THEN /\ bpc' = "done"
                /\ UNCHANGED <<reader, blk, bins, numCalls>>
           ELSE IF h.err # "nil"
           THEN /\ bpc' = "error"
                /\ UNCHANGED <<reader, blk, bins, numCalls>>
           ELSE /\ blk' = blk + 1
                /\ numCalls' = h.numCalls
                /\ reader' = c.pos
                /\ \E datatypeSize \in DatatypeSizes :
                      LET r == BinBlock(bins, c, h.numCalls, datatypeSize)
                      IN  /\ bins' = r.bins
                          /\ bpc' = IF r.err = "nil" THEN "loop" ELSE "error"
    /\ UNCHANGED <<lpc, lList, lNode, lIdx, fh, hurt>>
    /\ UNCHANGED notFile

NextFile ==
    \/ LogDataHeader
    \/ LogDataLine
    \/ LogDataEnd
    \/ Damage
    \/ GetBinsOpen
    \/ GetBinsBlock

InitSpecFile ==
    AnalysisIdle /\ MoreIdle /\ CodecIdle /\ InitLog /\ InitReader /\ NameIdle /\ LoadIdle
    /\ ValIdle /\ GroupIdle

SpecFile == InitSpecFile /\ [][NextFile]_vars

\* the lines of the file that start with prefix
LinesWith(prefix) == SelectSeq(fh, LAMBDA l : HasAt(l, prefix, 1))

\* the tokens of a line without its newline
Words(l) == Split(TrimRight(l, "\n"), " ")

SumSizes(b) == SumMap([k \in 1..Len(b) |-> b[k].Size])

\* the counter values of a Rank(s) line
ValuesOf(l) == SelectSeq(Words(Split(l, ": ")[2]), LAMBDA w : w # "")

RanksOf(l) ==
    ConvertCompressedCallListToIntSlice(
        SubSeq(Split(l, ": ")[1], Len("Rank(s) ") + 1, Len(Split(l, ": ")[1])))

RECURSIVE ExpectedSize(_, _)
\* what the lines from k on add to the bins when every block counts for
\* the number of calls of its node; j is the node of the last header
ExpectedSize(k, j) ==
    IF k > Len(fh) THEN 0
    ELSE IF HasAt(fh[k], "Count: ", 1) THEN ExpectedSize(k + 1, j + 1)
    ELSE IF IsRanksLine(fh[k])
    THEN lList[j].count * Len(RanksOf(fh[k]).ids) * Len(ValuesOf(fh[k]))
         + ExpectedSize(k + 1, j)
    ELSE ExpectedSize(k + 1, j)

\* C14: the Count line of a block of n calls holds n, lists exactly
\* min(n, MAX_TRACKED_CALLS) call indices and has the "more" suffix with
\* n - MAX_TRACKED_CALLS exactly when n > MAX_TRACKED_CALLS; GetBins takes
\* n, not the number of listed indices, as the number of calls of the block.
C14_CountHeader ==
    /\ \A j \in 1..Len(LinesWith("Count: ")) :
          LET n == lList[j].count
              w == Words(LinesWith("Count: ")[j])
          IN  /\ Len(w) >= 4
              /\ w[1] = "Count:" /\ w[2] = Itoa(n) /\ w[3] = "calls" /\ w[4] = "-"
              /\ Cardinality({k \in 5..Len(w) : AllDigits(w[k])})
                    = Min(n, MAX_TRACKED_CALLS)
              /\ \A k \in 1..Min(n, MAX_TRACKED_CALLS) :
                    w[4 + k] = Itoa(lList[j].calls[k])
              /\ (\E k \in 1..Len(w) : w[k] = "...") <=> n > MAX_TRACKED_CALLS
              /\ n > MAX_TRACKED_CALLS =>
                    /\ w[5 + MAX_TRACKED_CALLS] = "..."
                    /\ w[6 + MAX_TRACKED_CALLS] = "(" \o Itoa(n - MAX_TRACKED_CALLS)
    /\ blk > 0 => numCalls = lList[blk].count
    /\ bpc = "done" => SumSizes(bins) = ExpectedSize(1, 0)

\* C14 witness: a block of more calls than are listed was written and read
C14_Witness ==
    /\ bpc = "done"
    /\ hurt = "none"
    /\ lList[1].count > MAX_TRACKED_CALLS
    /\ numCalls > MAX_TRACKED_CALLS
    /\ SumSizes(bins) > 0

\* the communicator size of the block that line k belongs to
SizeAt(k) ==
    LET h == SetMax({x \in 1..k : HasAt(fh[x], "Number of ranks: ", 1)})
    IN  Atoi(TrimRight(Split(fh[h], ": ")[2], "\n")).val

RanksLines == {k \in 1..Len(fh) : IsRanksLine(fh[k])}

AllNumeric(vals) == \A k \in 1..Len(vals) : Atoi(vals[k]).ok

\* C15: every Rank(s) line _log_data writes for a block of commSize ranks
\* holds exactly commSize counters, and GetBins does not read to the end a
\* file with a line that holds another number of values, a value that is
\* not a number, or a rank list that cannot be decoded.
C15_LineChecked ==
    /\ hurt = "none" =>
          \A k \in RanksLines : Len(ValuesOf(fh[k])) = SizeAt(k)
    /\ bpc = "done" =>
          \A k \in RanksLines :
             /\ Len(ValuesOf(fh[k])) = SizeAt(k)
             /\ AllNumeric(ValuesOf(fh[k]))
             /\ RanksOf(fh[k]).ok

\* the header lines of the file, and the blocks between them
HeaderLines == {k \in 1..Len(fh) : HasAt(fh[k], "Number of ranks: ", 1)}

NextHeader(h) ==
    IF \E x \in HeaderLines : x > h
    THEN SetMin({x \in HeaderLines : x > h})
    ELSE Len(fh) + 1

\* no END DATA line between header h and the next header or the end
Truncated(h) == \A k \in h..(NextHeader(h) - 1) : fh[k] # "END DATA\n"

\* the header GetBins reads next
HeaderAhead == {h \in HeaderLines : h >= reader /\ \A x \in HeaderLines : x >= reader => h <= x}

\* C16: when the END DATA of a block is missing before the end of the file
\* or before the next header, GetBins returns an error and the bins hold
\* nothing of that block; a file with such a block is never read to the end.
C16_MissingEndData ==
    [][/\ (bpc = "loop" /\ blk' = blk + 1 /\ \E h \in HeaderAhead : Truncated(h))
            => (bpc' = "error" /\ bins' = bins)
       /\ bpc' = "done" => \A h \in HeaderLines : ~Truncated(h)]_vars

\* C16 witness: the END DATA of the first of two blocks was lost, so the
\* next header follows the data, and GetBins returned an error
C16_Witness ==
    /\ hurt = "cut"
    /\ Len(lList) = 2
    /\ Truncated(SetMin(HeaderLines))
    /\ ~Truncated(SetMax(HeaderLines))
    /\ bpc = "error"
    /\ blk = 1
    /\ SumSizes(bins) = 0

----------------------------------------------------------------------------
(* The validation data: getInfoFromFilename, the loader of a validation    *)
(* file and Validate.                                                      *)

RECURSIVE LastIndex(_, _)
\* strings.LastIndex, 1-based, 0 when sub does not occur
LastIndex(s, sub) ==
    LET k == Index(s, sub)
        rest == LastIndex(SubSeq(s, k + 1, Len(s)), sub)
    IN  IF k = 0 THEN 0 ELSE IF rest = 0 THEN k ELSE k + rest

\* filepath.Base: the last element of the path, trailing slashes removed
Base(path) ==
    LET q == TrimRight(path, "/")
    IN  IF path = "" THEN "."
        ELSE IF q = "" THEN "/"
        ELSE SubSeq(q, LastIndex(q, "/") + 1, Len(q))

InfoError == [called |-> TRUE, err |-> TRUE, id |-> -1, rank |-> -1, call |-> -1]

\* getInfoFromFilename applied to the whole path
getInfoFromPath(path) ==
    LET tokens == Split(ReplaceAll(ReplaceAll(path, "validation_data-", ""),
                                   ".txt", ""), "-")
        id == Atoi(ReplaceAll(tokens[1], "pid", ""))
        rank == Atoi(ReplaceAll(tokens[2], "rank", ""))
        call == Atoi(ReplaceAll(tokens[3], "call", ""))
    IN  IF Len(tokens) # 3 THEN InfoError
        ELSE IF ~id.ok \/ ~rank.ok \/ ~call.ok THEN InfoError
        ELSE [called |-> TRUE, err |-> FALSE,
              id |-> id.val, rank |-> rank.val, call |-> call.val]

getInfoFromFilename(path) ==
    LET filename == ReplaceAll(ReplaceAll(Base(path), "validation_data-", ""),
                               ".txt", "")
        tokens == Split(filename, "-")
        id == Atoi(ReplaceAll(tokens[1], "pid", ""))
        rank == Atoi(ReplaceAll(tokens[2], "rank", ""))
        call == Atoi(ReplaceAll(tokens[3], "call", ""))
    IN  IF Len(tokens) # 3 THEN InfoError
        ELSE IF ~id.ok THEN InfoError
        ELSE IF ~rank.ok THEN InfoError
        ELSE IF ~call.ok THEN InfoError
        ELSE [called |-> TRUE, err |-> FALSE,
              id |-> id.val, rank |-> rank.val, call |-> call.val]

\* the names handed to getInfoFromFilename: a directory, the prefix, the
\* fields joined with '-', the extension
Dirs == {"", "run-1/", "/tmp/a/"}
NumberTexts == {"0", "7", "12", "x", ""}
Tags == <<"pid", "rank", "call">>

\* the fields of a name: one to four, each a tag and a number text
FieldLists ==
    UNION {[1..n -> NumberTexts] : n \in {2, 3}} \cup
    {<<"1">>, <<"1", "2", "3", "4">>}

RECURSIVE JoinFields(_, _)
JoinFields(nums, k) ==
    IF k > Len(nums) THEN ""
    ELSE (IF k > 1 THEN "-" ELSE "")
         \o (IF k <= Len(Tags) THEN Tags[k] ELSE "x") \o nums[k]
         \o JoinFields(nums, k + 1)

NameOf(dir, nums) == dir \o "validation_data-" \o JoinFields(nums, 1) \o ".txt"

InitName ==
    /\ fnPath \in {NameOf(d, f) : d \in Dirs, f \in FieldLists}
    /\ fnOut = [called |-> FALSE, err |-> FALSE, id |-> 0, rank |-> 0, call |-> 0]

GetInfoFromFilenameCall ==
    /\ ~fnOut.called
    /\ fnOut' = getInfoFromFilename(fnPath)
    /\ UNCHANGED fnPath
    /\ UNCHANGED notName

InitSpecName ==
    AnalysisIdle /\ MoreIdle /\ CodecIdle /\ FileIdle /\ InitName /\ LoadIdle /\ ValIdle
    /\ GroupIdle

SpecName == InitSpecName /\ [][GetInfoFromFilenameCall]_vars

\* C19: the name validation_data-pid<id>-rank<rank>-call<call>.txt, behind
\* any directory, gives (id, rank, call); a name that has not exactly three
\* fields, or a field that is not a number, gives an error and (-1, -1, -1).
C19_FilenameInfo ==
    fnOut.called =>
        \A d \in Dirs, f \in FieldLists :
            fnPath = NameOf(d, f) =>
                IF Len(f) = 3 /\ \A k \in 1..3 : AllDigits(f[k])
                THEN /\ ~fnOut.err
                     /\ Itoa(fnOut.id) = f[1]
                     /\ Itoa(fnOut.rank) = f[2]
                     /\ Itoa(fnOut.call) = f[3]
                ELSE fnOut = InfoError

\* C19 witness: a name with two-digit and one-digit numbers behind a
\* directory that holds a '-' was parsed
C19_Witness ==
    /\ fnPath = "run-1/validation_data-pid12-rank7-call0.txt"
    /\ fnOut = [called |-> TRUE, err |-> FALSE, id |-> 12, rank |-> 7, call |-> 0]

LoadError(msg) == [called |-> TRUE, err |-> msg, send |-> "", recv |-> ""]

RECURSIVE ReadLines(_, _, _)
\* the loop of getCountersFromValidationFile: reader.ReadString('\n')
\* returns the text up to and with the next newline, or the rest of the
\* file and io.EOF
ReadLines(text, sendCounters, recvCounters) ==
    LET k == Index(text, "\n")
        line == IF k = 0 THEN text ELSE SubSeq(text, 1, k)
        rest == IF k = 0 THEN "" ELSE SubSeq(text, k + 1, Len(text))
        taken == line # "" /\ line # "\n"
        send == IF taken /\ sendCounters = "" THEN line ELSE sendCounters
        recv == IF taken /\ sendCounters # "" /\ recvCounters = "" THEN line
                ELSE recvCounters
    IN  IF taken /\ sendCounters # "" /\ recvCounters # ""
        THEN LoadError("invalid file format")
        ELSE IF k = 0
        THEN [called |-> TRUE, err |-> "", send |-> send, recv |-> recv]
        ELSE ReadLines(rest, send, recv)

getCountersFromValidationFile(text) ==
    LET r == ReadLines(text, "", "")
    IN  IF r.err # "" THEN r
        ELSE IF r.send = "" \/ r.recv = ""
        THEN LoadError("unable to load send and receive counters")
        ELSE [called |-> TRUE, err |-> "",
              send |-> TrimRight(TrimRight(r.send, "\n"), " "),
              recv |-> TrimRight(TrimRight(r.recv, "\n"), " ")]

\* the files handed to the loader: up to MaxPieces lines, then what is
\* left behind the last newline
MaxPieces == 3
Pieces == {"\n", " \n", "1 2 \n", "30\n"}
Ends == {"", " ", "4 5"}

RECURSIVE Texts(_)
Texts(n) ==
    IF n = 0 THEN {""}
    ELSE Texts(n - 1) \cup {x \o y : x \in Pieces, y \in Texts(n - 1)}

InitLoad ==
    /\ vfText \in {x \o e : x \in Texts(MaxPieces), e \in Ends}
    /\ vfOut = [called |-> FALSE, err |-> "", send |-> "", recv |-> ""]

GetCountersFromValidationFileCall ==
    /\ ~vfOut.called
    /\ vfOut' = getCountersFromValidationFile(vfText)
    /\ UNCHANGED vfText
    /\ UNCHANGED notLoad

InitSpecLoad ==
    AnalysisIdle /\ MoreIdle /\ CodecIdle /\ FileIdle /\ NameIdle /\ InitLoad /\ ValIdle
    /\ GroupIdle

SpecLoad == InitSpecLoad /\ [][GetCountersFromValidationFileCall]_vars

\* the lines of a text, without their newlines
LinesOf(text) == Split(text, "\n")

OnlySpaces(l) == \A k \in 1..Len(l) : Ch(l, k) = " "

\* C17: the load succeeds exactly when the file holds two non-empty lines
\* and behind them nothing but white space and newlines; it then returns
\* the first as the send and the second as the receive counters, without
\* trailing spaces and newline; otherwise it returns an error and no
\* counters.
C17_TwoLines ==
    vfOut.called =>
        LET l == LinesOf(vfText)
            full == {k \in 1..Len(l) : l[k] # ""}
            first == SetMin(full)
            second == SetMin(full \ {first})
            good == /\ Cardinality(full) >= 2
                    /\ \A k \in full : k > second => OnlySpaces(l[k])
        IN  IF good
            THEN /\ vfOut.err = ""
                 /\ vfOut.send = TrimRight(l[first], " ")
                 /\ vfOut.recv = TrimRight(l[second], " ")
            ELSE /\ vfOut.err # ""
                 /\ vfOut.send = "" /\ vfOut.recv = ""

\* the directory Validate works in
ValDir == "run-1/"

\* a validation file of the capture library for (pid, rank, call) with its
\* two lines; rank, call, send and recv say what the file was written for
ValFile(p, r, c, send, recv) ==
    [name |-> NameOf("", <<Itoa(p), Itoa(r), Itoa(c)>>),
     text |-> send \o " \n" \o recv \o " \n",
     good |-> TRUE, rank |-> r, call |-> c, send |-> send, recv |-> recv]

\* a file whose second line is missing, and a file without its call number
HalfFile(p, r, c, send) ==
    [ValFile(p, r, c, send, "") EXCEPT !.text = send \o " \n", !.good = FALSE]

ShortName(p, r, send, recv) ==
    [ValFile(p, r, 0, send, recv) EXCEPT
        !.name = NameOf("", <<Itoa(p), Itoa(r)>>), !.good = FALSE]

\* the files a directory can hold at each place of the ReadDir order
DirSlots ==
    <<{ValFile(1, 0, 0, "1 2", "3 4"), ValFile(1, 0, 0, "1 2", "9 9"),
       HalfFile(1, 0, 0, "1 2")},
      {ShortName(1, 0, "1 2", "3 4")},
      {ValFile(1, 1, 0, "1 2", "3 4"), ValFile(1, 1, 0, "0 0", "3 4")},
      {ValFile(12, 0, 0, "1 2", "3 4"), ValFile(12, 0, 0, "1 2", "9 9")},
      {ValFile(12, 1, 0, "1 2", "3 4")}>>

RECURSIVE DirsFrom(_)
\* the directories that hold, for each place from k on, one file or none
DirsFrom(k) ==
    IF k > Len(DirSlots) THEN {<<>>}
    ELSE LET rest == DirsFrom(k + 1)
         IN  rest \cup {<<f>> \o d : f \in DirSlots[k], d \in rest}

\* the profile: for a (rank, call) the send and receive counters, if any
Profiles ==
    LET keys == {<<0, 0>>, <<1, 0>>}
    IN  UNION {[D -> {[send |-> "1 2", recv |-> "3 4"]}] : D \in SUBSET keys}

\* datafilereader.FindCallRankCounters
FindCallRankCounters(data, rank, call) ==
    IF <<rank, call>> \in DOMAIN data
    THEN [err |-> FALSE, send |-> data[<<rank, call>>].send,
          recv |-> data[<<rank, call>>].recv]
    ELSE [err |-> TRUE, send |-> "", recv |-> ""]

getValidationFiles(dir, id) ==
    SelectSeq(dir, LAMBDA f : HasAt(f.name, "validation_data-pid" \o id, 1))

\* the comparison that looks at the send counters only
CompareSendOnly(path, c1, c2) ==
    IF c1.send # c2.send
    THEN [kind |-> "send", file |-> Base(path),
          expected |-> c1.send, actual |-> c2.send]
    ELSE NoError

\* the two comparisons of Validate and their errors
CompareCounters(path, c1, c2) ==
    IF c1.send # c2.send
    THEN [kind |-> "send", file |-> Base(path),
          expected |-> c1.send, actual |-> c2.send]
    ELSE IF c1.recv # c2.recv
    THEN [kind |-> "recv", file |-> Base(path),
          expected |-> c1.recv, actual |-> c2.recv]
    ELSE NoError

\* the body of the loop of Validate for the file f
ValidateOne(f, data) ==
    LET path == ValDir \o f.name
        info == getInfoFromFilename(path)
        c1 == getCountersFromValidationFile(f.text)
        c2 == FindCallRankCounters(data, info.rank, info.call)
    IN  IF info.err THEN [NoError EXCEPT !.kind = "name"]
        ELSE IF c1.err # ""
        THEN [NoError EXCEPT !.kind = "load",
                             !.file = IF c1.err = "invalid file format"
                                      THEN "" ELSE path]
        ELSE IF c2.err THEN [NoError EXCEPT !.kind = "lookup"]
        ELSE CompareCounters(path, c1, c2)

InitVal ==
    /\ vpc = "start"
    /\ vPid \in {1, 12}
    /\ vDir \in DirsFrom(1)
    /\ vData \in Profiles
    /\ files = <<>>
    /\ vIdx = 0
    /\ vErr = NoError
    /\ vDone = <<>>

ValidateStart ==
    /\ vpc = "start"
    /\ files' = getValidationFiles(vDir, Itoa(vPid))
    /\ vIdx' = 1
    /\ vpc' = "loop"
    /\ UNCHANGED <<vPid, vDir, vData, vErr, vDone>>
    /\ UNCHANGED notVal

ValidateFile ==
    /\ vpc = "loop"
    /\ vIdx <= Len(files)
    /\ LET e == ValidateOne(files[vIdx], vData)
       IN  IF e.kind # "nil"
           THEN /\ vErr' = e
                /\ vpc' = "error"
                /\ UNCHANGED <<vIdx, vDone>>
           ELSE /\ vDone' = Append(vDone, Base(ValDir \o files[vIdx].name))
                /\ vIdx' = vIdx + 1
                /\ UNCHANGED <<vpc, vErr>>
    /\ UNCHANGED <<vPid, vDir, vData, files>>
    /\ UNCHANGED notVal

ValidateReturn ==
    /\ vpc = "loop"
    /\ vIdx > Len(files)
    /\ vpc' = "ok"
    /\ UNCHANGED <<vPid, vDir, vData, files, vIdx, vErr, vDone>>
    /\ UNCHANGED notVal

NextVal == ValidateStart \/ ValidateFile \/ ValidateReturn

InitSpecVal ==
    AnalysisIdle /\ MoreIdle /\ CodecIdle /\ FileIdle /\ NameIdle /\ LoadIdle /\ InitVal
    /\ GroupIdle

SpecVal == InitSpecVal /\ [][NextVal]_vars

\* the file holds what the profile holds for its rank and call
Matches(f) ==
    /\ f.good
    /\ <<f.rank, f.call>> \in DOMAIN vData
    /\ vData[<<f.rank, f.call>>].send = f.send
    /\ vData[<<f.rank, f.call>>].recv = f.recv

FirstFailing == SetMin({k \in 1..Len(files) : ~Matches(files[k])})

NamesBefore(k) == [x \in 1..(k - 1) |-> files[x].name]

\* the error of a file whose strings differ from the profile's
NamesTheDifference(f) ==
    /\ vErr.file = f.name
    /\ \/ /\ vErr.kind = "send"
          /\ vErr.expected = f.send /\ vErr.expected # vErr.actual
          /\ vErr.actual = vData[<<f.rank, f.call>>].send
       \/ /\ vErr.kind = "recv"
          /\ vData[<<f.rank, f.call>>].send = f.send
          /\ vErr.expected = f.recv /\ vErr.expected # vErr.actual
          /\ vErr.actual = vData[<<f.rank, f.call>>].recv

----------------------------------------------------------------------------
(* The grouping engine, driven as grouping_test and print_data drive it:   *)
(* add_datapoint for each point, then get_groups and grouping_fini.  The   *)
(* engine itself is modelled from its description: a point joins the first *)
(* group whose value range it touches, or opens a new group.               *)

\* number of add_datapoint calls, and of get_groups/grouping_fini calls
MaxPoints == 4
MaxRuns == 2

\* the values of the points, and the policies of the engine: how far from
\* the range of a group a value may lie to join it
PointValues == {1, 2, 3, 5, 10}
Policies == {1, 2}

Max(a, b) == IF a > b THEN a ELSE b

Compatible(g, v, tol) == g.min - tol <= v /\ v <= g.max + tol

\* a new group goes in front of the first group of larger values
InsertGroup(groups, g) ==
    LET before == SelectSeq(groups, LAMBDA x : x.max < g.min)
    IN  before \o <<g>> \o SubSeq(groups, Len(before) + 1, Len(groups))

\* an engine that forgets the point when it opens no group
add_datapoint_to_new_only(groups, id, v, tol) ==
    IF \E k \in 1..Len(groups) : Compatible(groups[k], v, tol) THEN groups
    ELSE InsertGroup(groups, [min |-> v, max |-> v, elts |-> <<id>>])

add_datapoint(groups, id, v, tol) ==
    LET fit == {k \in 1..Len(groups) : Compatible(groups[k], v, tol)}
    IN  IF fit # {}
        THEN [groups EXCEPT ![SetMin(fit)] =
                 [min |-> Min(@.min, v), max |-> Max(@.max, v),
                  elts |-> Append(@.elts, id)]]
        ELSE InsertGroup(groups, [min |-> v, max |-> v, elts |-> <<id>>])

InitGroup ==
    /\ gTol \in Policies
    /\ gGroups = <<>>
    /\ gAdded = <<>>
    /\ gTotal = 0
    /\ gRuns = 0
    /\ gOut = <<>>
    /\ gSince = <<>>

\* add_datapoint(j, points): the id is the index of the point in the run
AddDatapoint ==
    /\ gTotal < MaxPoints
    /\ \E v \in PointValues :
          gGroups' = add_datapoint(gGroups, Len(gAdded), v, gTol)
    /\ gAdded' = Append(gAdded, Len(gAdded))
    /\ gTotal' = gTotal + 1
    /\ UNCHANGED <<gTol, gRuns, gOut, gSince>>
    /\ UNCHANGED notGroup

\* get_groups, then grouping_fini: the groups are returned and the engine
\* is empty again
GetGroups ==
    /\ gRuns < MaxRuns
    /\ gOut' = gGroups
    /\ gSince' = gAdded
    /\ gGroups' = <<>>
    /\ gAdded' = <<>>
    /\ gRuns' = gRuns + 1
    /\ UNCHANGED <<gTol, gTotal>>
    /\ UNCHANGED notGroup

NextGroup == AddDatapoint \/ GetGroups

InitSpecGroup ==
    AnalysisIdle /\ MoreIdle /\ CodecIdle /\ FileIdle /\ NameIdle /\ LoadIdle /\ ValIdle
    /\ InitGroup

SpecGroup == InitSpecGroup /\ [][NextGroup]_vars

\* how often id is a member of the groups
TimesIn(groups, id) ==
    SumMap([k \in 1..Len(groups) |->
               Cardinality({x \in 1..Len(groups[k].elts) : groups[k].elts[x] = id})])

Members(groups) == UNION {{g.elts[x] : x \in 1..Len(g.elts)} : g \in {groups[k] : k \in 1..Len(groups)}}

\* C20: the groups a get_groups returns hold exactly the ids added since
\* the get_groups before it (or since the start), each id in one group and
\* once; without an add since then the list of groups is empty.
C20_GroupsCoverAdded ==
    gRuns > 0 =>
        /\ Members(gOut) = {gSince[k] : k \in 1..Len(gSince)}
        /\ \A k \in 1..Len(gSince) : TimesIn(gOut, gSince[k]) = 1
        /\ \A k \in 1..Len(gOut) : gOut[k].elts # <<>>
        /\ gSince = <<>> => gOut = <<>>

\* C20 witness: the second get_groups returned two groups for three points
\* added after the first one, which had returned groups too
C20_Witness ==
    /\ gRuns = 2
    /\ Len(gSince) = 3
    /\ Len(gOut) = 2
    /\ gTotal = 4

----------------------------------------------------------------------------
(* grouping_test: the four tests of the engine.  Each test adds its points *)
(* in order, asks for the groups and compares them with what it expects;   *)
(* the first difference ends the program.  The tests run here in any       *)
(* order, and again, so that a result that depends on an earlier test      *)
(* shows.                                                                  *)

\* number of tests run
MaxTests == 3

\* tests[] of grouping_test
tests == <<
    [points |-> <<1, 2, 3, 3, 3>>,
     groups_result |-> << <<1, 2>>, <<3, 3, 3>> >>],
    [points |-> <<1, 2, 3>>,
     groups_result |-> << <<1, 2, 3>> >>],
    [points |-> <<1, 2, 3, 5>>,
     groups_result |-> << <<1, 2, 3, 5>> >>],
    [points |-> <<1, 2, 3, 10, 11, 12>>,
     groups_result |-> << <<1, 2, 3>>, <<10, 11, 12>> >>] >>

\* the policies the engine is tried with
TestPolicies == 0..3

\* tests[i].points[ptr->elts[l]] for every element of every group
ValuesOfGroups(gps, points) ==
    [k \in 1..Len(gps) |->
        [l \in 1..Len(gps[k].elts) |-> points[gps[k].elts[l] + 1]]]

\* the comparison of the groups with the expected ones: the number of
\* groups, then for each element the size of its group and its value
TestPasses(gps, t) ==
    /\ Len(gps) = Len(t.groups_result)
    /\ \A k \in 1..Len(gps) : \A l \in 1..Len(gps[k].elts) :
          /\ Len(gps[k].elts) = Len(t.groups_result[k])
          /\ t.points[gps[k].elts[l] + 1] = t.groups_result[k][l]

InitTest ==
    /\ gTol \in TestPolicies
    /\ gGroups = <<>>
    /\ gAdded = <<>>
    /\ gTotal = 0
    /\ gRuns = 0
    /\ gOut = <<>>
    /\ gSince = <<>>
    /\ TestIdle

\* for (int i = 0; i < 4; i++): the next test starts
TestStart ==
    /\ tpc = "pick"
    /\ tRuns < MaxTests
    /\ \E t \in 1..Len(tests) : tTest' = t
    /\ tJ' = 0
    /\ tpc' = "add"
    /\ UNCHANGED <<tRuns, groupVars>>
    /\ UNCHANGED notTest

\* add_datapoint(j, tests[i].points)
TestAdd ==
    /\ tpc = "add"
    /\ tJ < Len(tests[tTest].points)
    /\ gGroups' = add_datapoint(gGroups, tJ, tests[tTest].points[tJ + 1], gTol)
    /\ tJ' = tJ + 1
    /\ UNCHANGED <<tpc, tTest, tRuns>>
    /\ UNCHANGED <<gTol, gAdded, gTotal, gRuns, gOut, gSince>>
    /\ UNCHANGED notTest

\* get_groups and the comparison; grouping_fini when the test passed
TestCompare ==
    /\ tpc = "add"
    /\ tJ = Len(tests[tTest].points)
    /\ gOut' = gGroups
    /\ IF TestPasses(gGroups, tests[tTest])
       THEN tpc' = "pick" /\ gGroups' = <<>>
       ELSE tpc' = "failed" /\ gGroups' = gGroups
    /\ tRuns' = tRuns + 1
    /\ UNCHANGED <<tTest, tJ>>
    /\ UNCHANGED <<gTol, gAdded, gTotal, gRuns, gSince>>
    /\ UNCHANGED notTest

NextTest == TestStart \/ TestAdd \/ TestCompare

InitSpecTest == IdleButTest /\ InitTest

SpecTest == InitSpecTest /\ [][NextTest]_vars

\* C21: whenever a test has asked for the groups, they are the expected
\* ones: the groups in ascending value order, each with the values of its
\* members in insertion order ([1,2,3] one group, [1,2,3,5] one group,
\* [1,2,3,10,11,12] two groups, [1,2,3,3,3] the groups {1,2} and {3,3,3}),
\* whatever ran before.
C21_TestVectors ==
    (tRuns > 0 /\ tpc # "add") =>
        ValuesOfGroups(gOut, tests[tTest].points) = tests[tTest].groups_result

----------------------------------------------------------------------------
(* ConvertIntMapToOrderedArrayByValue, called more than once on one map.   *)
(* range yields the keys of a Go map in an order that differs from one     *)
(* loop to the next; sort.Sort is the insertion sort the sort package uses *)
(* for short slices, with KVList.Less.                                     *)

\* number of calls on the map
MaxConverts == 2

KVKeys == {1, 2, 3}
KVVals == {5, 7}

\* KVList.Less
Less(x, y) == x.Val < y.Val

\* the inner loop of the insertion sort: x moves left while Less(x, the
\* element before it)
RECURSIVE SinkLeft(_, _)
SinkLeft(list, x) ==
    IF list # <<>> /\ Less(x, list[Len(list)])
    THEN Append(SinkLeft(SubSeq(list, 1, Len(list) - 1), x), list[Len(list)])
    ELSE Append(list, x)

RECURSIVE Sort(_)
Sort(list) ==
    IF list = <<>> THEN <<>>
    ELSE SinkLeft(Sort(SubSeq(list, 1, Len(list) - 1)), list[Len(list)])

InitConv ==
    /\ kpc = "range"
    /\ kMap \in MapsOver(KVKeys, KVVals)
    /\ kTodo = DOMAIN kMap
    /\ kArr = <<>>
    /\ kOut = <<>>

\* for k, v := range m: append(sortedArray, KV{Key: k, Val: v})
ConvertRange ==
    /\ kpc = "range"
    /\ \E k \in kTodo :
          /\ kArr' = Append(kArr, [Key |-> k, Val |-> kMap[k]])
          /\ kTodo' = kTodo \ {k}
    /\ UNCHANGED <<kpc, kMap, kOut>>
    /\ UNCHANGED notConv

\* sort.Sort(sortedArray) and the return; the next call starts on the map
ConvertReturn ==
    /\ kpc = "range"
    /\ kTodo = {}
    /\ kOut' = Append(kOut, Sort(kArr))
    /\ kArr' = <<>>
    /\ IF Len(kOut) + 1 < MaxConverts
       THEN kpc' = "range" /\ kTodo' = DOMAIN kMap
       ELSE kpc' = "done" /\ kTodo' = {}
    /\ UNCHANGED kMap
    /\ UNCHANGED notConv

NextConv == ConvertRange \/ ConvertReturn

InitSpecConv == IdleButConv /\ InitConv

SpecConv == InitSpecConv /\ [][NextConv]_vars

\* a returned list holds one KV per key of the map, with the key's value,
\* in non-decreasing order of Val
OneKVPerKey(list) ==
    /\ Len(list) = Cardinality(DOMAIN kMap)
    /\ \A k \in DOMAIN kMap :
          \E p \in 1..Len(list) : list[p] = [Key |-> k, Val |-> kMap[k]]
    /\ \A p, q \in 1..Len(list) : p < q => list[p].Val <= list[q].Val

\* C22: every returned list holds exactly one KV per key of the map, in
\* non-decreasing order of Val, and all the calls on one map return the
\* same list, also when several keys have the same value.
C22_PredictableOrder ==
    /\ \A c \in 1..Len(kOut) : OneKVPerKey(kOut[c])
    /\ \A c, d \in 1..Len(kOut) : kOut[c] = kOut[d]

----------------------------------------------------------------------------
(* _mpi_alltoallv and insert_sendrecv_data of the capture library.  The    *)
(* list of avSRCountNode is the sequence of its nodes from head along      *)
(* next.  A read past the end of a malloc'ed send_data yields whatever the *)
(* heap holds there, or ends the process.                                  *)

\* number of alltoallv calls
MaxInserts == 3

\* communicator sizes, and the counts gathered in sbuf and rbuf
InsertSizes == {1, 2}
SendBufs(size) ==
    IF size = 1 THEN {<<0>>, <<1>>}
    ELSE {<<a, b, 0, 0>> : a \in {0, 1}, b \in {0, 1}}
RecvBufs(size) ==
    IF size = 1 THEN {<<0>>, <<1>>} ELSE {<<0, 0, 0, 0>>, <<1, 0, 1, 0>>}

\* what the heap may hold behind a send_data of one element
HeapVals == {0, 1}
Heaps == [1..3 -> HeapVals]

\* same_data(dest, src, size): dest read up to the first difference; the
\* elements of dest past its end come from the heap.  last is the index of
\* the last element read.
RECURSIVE SameFrom(_, _, _, _, _)
SameFrom(dest, src, size, heap, num) ==
    IF num = size * size THEN [same |-> TRUE, last |-> num - 1]
    ELSE LET d == IF num < Len(dest) THEN dest[num + 1]
                  ELSE heap[num - Len(dest) + 1]
         IN  IF d # src[num + 1] THEN [same |-> FALSE, last |-> num]
             ELSE SameFrom(dest, src, size, heap, num + 1)

same_data(dest, src, size, heap) == SameFrom(dest, src, size, heap, 0)

\* the test of the while loop on the node temp
Rejects(temp, sbuf, size, sendtype_size, recvtype_size, heap) ==
    \/ ~same_data(temp.send_data, sbuf, size, heap).same
    \/ temp.size # size
    \/ temp.recvtype_size # recvtype_size
    \/ temp.sendtype_size # sendtype_size

newNode(sbuf, rbuf, size, sendtype_size, recvtype_size) ==
    [size |-> size, count |-> 1, send_data |-> sbuf, recv_data |-> rbuf,
     sendtype_size |-> sendtype_size, recvtype_size |-> recvtype_size]

\* the while loop from the node at position k, then the append
RECURSIVE ScanFrom(_, _, _, _, _, _, _, _)
ScanFrom(list, k, sbuf, rbuf, size, sendtype_size, recvtype_size, heap) ==
    IF k > Len(list)
    THEN Append(list, newNode(sbuf, rbuf, size, sendtype_size, recvtype_size))
    ELSE IF Rejects(list[k], sbuf, size, sendtype_size, recvtype_size, heap)
         THEN ScanFrom(list, k + 1, sbuf, rbuf, size, sendtype_size,
                       recvtype_size, heap)
         ELSE [list EXCEPT ![k].count = @ + 1]

\* a scan that takes a node for the same as soon as its data compare equal
insert_without_size_test(list, sbuf, rbuf, size, ss, rs, heap) ==
    LET same == {k \in 1..Len(list) :
                    same_data(list[k].send_data, sbuf, size, heap).same}
    IN  IF same = {}
        THEN Append(list, newNode(sbuf, rbuf, size, ss, rs))
        ELSE [list EXCEPT ![SetMin(same)].count = @ + 1]

insert_sendrecv_data(list, sbuf, rbuf, size, ss, rs, heap) ==
    ScanFrom(list, 1, sbuf, rbuf, size, ss, rs, heap)

\* the nodes the scan compares: those up to the one it stops at
Scanned(list, sbuf, size, ss, rs, heap) ==
    LET stop == {k \in 1..Len(list) :
                    ~Rejects(list[k], sbuf, size, ss, rs, heap)}
    IN  IF stop = {} THEN 1..Len(list) ELSE 1..SetMin(stop)

\* the reads of same_data past the end of a scanned node's send_data:
\* the node and the last index read
ReadsPastEnd(list, sbuf, size, ss, rs, heap) ==
    {<<k, same_data(list[k].send_data, sbuf, size, heap).last>> :
        k \in {x \in Scanned(list, sbuf, size, ss, rs, heap) :
                  same_data(list[x].send_data, sbuf, size, heap).last
                      >= Len(list[x].send_data)}}

InitIns ==
    /\ ipc = "run"
    /\ myrank \in {0, 1}
    /\ sizeofType \in {4, 8}
    /\ head = <<>>
    /\ avCalls = 0
    /\ iArgs = <<>>
    /\ iRead = {}

\* _mpi_alltoallv: avCalls++, the gathers, and on rank 0 the insert
MpiAlltoallv ==
    /\ ipc = "run"
    /\ avCalls < MaxInserts
    /\ avCalls' = avCalls + 1
    /\ \E size \in InsertSizes : \E sbuf \in SendBufs(size) :
       \E rbuf \in RecvBufs(size) : \E heap \in Heaps :
          IF myrank = 0
          THEN LET past == ReadsPastEnd(head, sbuf, size, sizeofType,
                                        sizeofType, heap)
               IN  /\ iArgs' = [sbuf |-> sbuf, rbuf |-> rbuf, size |-> size]
                   /\ iRead' = past
                   /\ \/ /\ head' = insert_sendrecv_data(head, sbuf, rbuf,
                                        size, sizeofType, sizeofType, heap)
                         /\ ipc' = "run"
                      \/ /\ past # {}
                         /\ head' = head
                         /\ ipc' = "crashed"
          ELSE UNCHANGED <<ipc, head, iArgs, iRead>>
    /\ UNCHANGED <<myrank, sizeofType>>
    /\ UNCHANGED notIns

InitSpecIns == IdleButIns /\ InitIns

SpecIns == InitSpecIns /\ [][MpiAlltoallv]_vars

\* the sum of the counts of the nodes
SumCounts(list) == SumMap([k \in 1..Len(list) |-> list[k].count])

\* the stored nodes with the communicator size, the datatype sizes and the
\* send counts of a call
SameCall(list, a) ==
    {k \in 1..Len(list) :
        /\ list[k].size = a.size
        /\ list[k].sendtype_size = sizeofType
        /\ list[k].recvtype_size = sizeofType
        /\ list[k].send_data = a.sbuf}

\* C23: on rank 0 every alltoallv call that insert_sendrecv_data returns
\* from adds 1 to the count of the first stored node with the same
\* communicator size, datatype sizes and send counts, whatever its receive
\* counts, or else appends one node with count 1 at the tail; the counts of
\* the nodes then sum to the number of calls.
C23_InsertCounts ==
    [][(avCalls' = avCalls + 1 /\ myrank = 0 /\ ipc' = "run") =>
        LET a == iArgs'
            M == SameCall(head, a)
        IN  /\ IF M # {}
               THEN head' = [head EXCEPT ![SetMin(M)].count = @ + 1]
               ELSE /\ Len(head') = Len(head) + 1
                    /\ SubSeq(head', 1, Len(head)) = head
                    /\ head'[Len(head')].count = 1
                    /\ head'[Len(head')].size = a.size
                    /\ head'[Len(head')].send_data = a.sbuf
                    /\ head'[Len(head')].recv_data = a.rbuf
            /\ SumCounts(head') = avCalls']_vars

\* C23 witness: the third call has the send counts of the first node and
\* other receive counts, and counted on it; the second node is of another
\* communicator size
C23_Witness ==
    /\ ipc = "run"
    /\ myrank = 0
    /\ avCalls = 3
    /\ Len(head) = 2
    /\ head[1].count = 2
    /\ head[2].size # head[1].size
    /\ iArgs.sbuf = head[1].send_data
    /\ iArgs.rbuf # head[1].recv_data

\* C30: no call reads a stored node's send_data at an index that is not
\* below the square of the node's size.
C30_ReadsInBounds == iRead = {}

----------------------------------------------------------------------------
(* validateProfiler: the libraries and the examples are built, then every  *)
(* test gets a temporary directory, runs under each shared library, has    *)
(* its output checked and, unless the results are kept, its directory      *)
(* removed.  The directory ioutil.TempDir makes for a test is named by the *)
(* position of the test.                                                   *)

sharedLibraries ==
    <<"liballtoallv_counts.so", "liballtoallv_backtrace.so",
      "liballtoallv_location.so", "liballtoallv_late_arrival.so",
      "liballtoallv_exec_timings.so">>

\* the binary of each test of validationTests
validationTests(full) ==
    <<"alltoallv_c", "alltoallv_f", "alltoallv_multicomms_c", "alltoallv_dt_c">>
    \o (IF full THEN <<"alltoallv_bigcounts_c">> ELSE <<>>)

\* results[key] = value
MapSet(mp, key, value) ==
    MadeMap([x \in DOMAIN mp.m \cup {key} |->
                IF x = key THEN value ELSE mp.m[x]])

\* a clean-up that forgets keepResults
CleanupAlways(dirs, tempDir, keep) == dirs \ {tempDir}

\* if !keepResults { os.RemoveAll(tempDir) }
Cleanup(dirs, tempDir, keep) == IF ~keep THEN dirs \ {tempDir} ELSE dirs

InitProf ==
    /\ ppc = "build"
    /\ keepResults \in BOOLEAN
    /\ fullValidation \in BOOLEAN
    /\ pIdx = 0
    /\ pLib = 0
    /\ results = NilMap
    /\ pMade = {}
    /\ pDirs = {}
    /\ pRan = {}
    /\ pChecked = {}
    /\ pRet = NilMap

\* LookPath of mpirun and make and the two builds; then results is made
ProfilerBuild ==
    /\ ppc = "build"
    /\ \E ok \in BOOLEAN :
          IF ok
          THEN /\ ppc' = "tempdir"
               /\ pIdx' = 1
               /\ results' = IF keepResults THEN MadeMap(<<>>) ELSE NilMap
          ELSE /\ ppc' = "error"
               /\ UNCHANGED <<pIdx, results>>
    /\ UNCHANGED <<keepResults, fullValidation, pLib, pMade, pDirs, pRan,
                   pChecked, pRet>>
    /\ UNCHANGED notProf

\* ioutil.TempDir and results[tt.binary] = tempDir
TestTempDir ==
    /\ ppc = "tempdir"
    /\ pIdx <= Len(validationTests(fullValidation))
    /\ \E ok \in BOOLEAN :
          IF ok
          THEN /\ pMade' = pMade \cup {pIdx}
               /\ pDirs' = pDirs \cup {pIdx}
               /\ results' =
                     IF keepResults
                     THEN MapSet(results,
                                 validationTests(fullValidation)[pIdx], pIdx)
                     ELSE results
               /\ pLib' = 1
               /\ ppc' = "lib"
          ELSE /\ ppc' = "error"
               /\ UNCHANGED <<pMade, pDirs, results, pLib>>
    /\ UNCHANGED <<keepResults, fullValidation, pIdx, pRan, pChecked, pRet>>
    /\ UNCHANGED notProf

\* mpirun of the test under one shared library
TestRunLib ==
    /\ ppc = "lib"
    /\ pRan' = pRan \cup {pIdx}
    /\ \E ok \in BOOLEAN :
          IF ok
          THEN /\ pLib' = pLib + 1
               /\ ppc' = IF pLib = Len(sharedLibraries) THEN "check" ELSE "lib"
          ELSE /\ ppc' = "error"
               /\ UNCHANGED pLib
    /\ UNCHANGED <<keepResults, fullValidation, pIdx, results, pMade, pDirs,
                   pChecked, pRet>>
    /\ UNCHANGED notProf

\* checkOutput(codeBaseDir, tempDir, tt)
TestCheckOutput ==
    /\ ppc = "check"
    /\ \E ok \in BOOLEAN :
          IF ok
          THEN ppc' = "clean" /\ pChecked' = pChecked \cup {pIdx}
          ELSE ppc' = "error" /\ UNCHANGED pChecked
    /\ UNCHANGED <<keepResults, fullValidation, pIdx, pLib, results, pMade,
                   pDirs, pRan, pRet>>
    /\ UNCHANGED notProf

\* the clean-up of the test, and the next test
TestCleanup ==
    /\ ppc = "clean"
    /\ pDirs' = Cleanup(pDirs, pIdx, keepResults)
    /\ pIdx' = pIdx + 1
    /\ ppc' = "tempdir"
    /\ UNCHANGED <<keepResults, fullValidation, pLib, results, pMade, pRan,
                   pChecked, pRet>>
    /\ UNCHANGED notProf

\* after the last test: return results, nil or return nil, nil
ProfilerReturn ==
    /\ ppc = "tempdir"
    /\ pIdx > Len(validationTests(fullValidation))
    /\ pRet' = IF keepResults THEN results ELSE NilMap
    /\ ppc' = "ok"
    /\ UNCHANGED <<keepResults, fullValidation, pIdx, pLib, results, pMade,
                   pDirs, pRan, pChecked>>
    /\ UNCHANGED notProf

NextProf ==
    \/ ProfilerBuild
    \/ TestTempDir
    \/ TestRunLib
    \/ TestCheckOutput
    \/ TestCleanup
    \/ ProfilerReturn

InitSpecProf == IdleButProf /\ InitProf

SpecProf == InitSpecProf /\ [][NextProf]_vars

\* the directories that were removed
Removed == pMade \ pDirs

\* C24: a directory is removed only when its test's output check has
\* succeeded and keepResults is false; with keepResults the map returned on
\* success has one entry per test that ran, from its binary to its
\* directory; on an error nothing is returned, every earlier test had
\* succeeded and no later test has run.
C24_ResultDirs ==
    /\ Removed \subseteq pChecked
    /\ keepResults => Removed = {}
    /\ (ppc = "ok" /\ keepResults) =>
          /\ ~pRet.nil
          /\ pRan = 1..Len(validationTests(fullValidation))
          /\ DOMAIN pRet.m = {validationTests(fullValidation)[t] : t \in pRan}
          /\ \A t \in pRan : pRet.m[validationTests(fullValidation)[t]] = t
    /\ ppc = "error" =>
          /\ pRet.nil
          /\ pRan \subseteq 1..pIdx
          /\ pChecked = 1..(pIdx - 1)

\* C24 witness: the third test fails its output check after the directories
\* of the first two were removed; its own directory is left
C24_Witness ==
    /\ ppc = "error"
    /\ ~keepResults
    /\ pIdx = 3
    /\ pRan = {1, 2, 3}
    /\ pChecked = {1, 2}
    /\ pDirs = {3}
    /\ pLib = Len(sharedLibraries) + 1

----------------------------------------------------------------------------
(* The pattern table after any number of addPattern calls, checked under   *)
(* SpecPatterns: the calls are numbered 0, 1, 2, ... as ParseCountFiles    *)
(* numbers them.                                                           *)

\* how often callNum is in the call list of the pattern
TimesCalled(pattern, callNum) ==
    Cardinality({x \in 1..Len(pattern.Calls) : pattern.Calls[x] = callNum})

\* C25: every stored pattern has Count = the length of its call list, at
\* least 1; the counts sum to the number of records processed; every call
\* processed is in the call list of exactly one pattern, once.
C25_CountsAndCalls ==
    LET all == gp.AllPatterns
    IN  /\ \A k \in 1..Len(all) :
              all[k].Count = Len(all[k].Calls) /\ all[k].Count >= 1
        /\ SumMap([k \in 1..Len(all) |-> all[k].Count]) = nAdd
        /\ \A c \in 0..(nAdd - 1) :
              /\ Cardinality({k \in 1..Len(all) : TimesCalled(all[k], c) > 0}) = 1
              /\ \A k \in 1..Len(all) : TimesCalled(all[k], c) <= 1

\* C25 witness: three calls, the first and the third with the same
\* signatures
C25_Witness ==
    /\ nAdd = 3
    /\ Len(gp.AllPatterns) = 2
    /\ gp.AllPatterns[1].Calls = <<0, 2>>
    /\ gp.AllPatterns[2].Calls = <<1>>

\* C26: no two entries of AllPatterns have the same send and receive
\* signatures, and every entry of OneToN is an entry of AllPatterns whose
\* send signature has a pair (v, n) with v > n*100.
C26_UniqueAndFanOut ==
    LET all == gp.AllPatterns
    IN  /\ \A j, k \in 1..Len(all) :
              (/\ CompareCallPatterns(all[j].Send, all[k].Send)
               /\ CompareCallPatterns(all[j].Recv, all[k].Recv)) => j = k
        /\ \A x \in 1..Len(gp.OneToN) :
              /\ gp.OneToN[x] \in 1..Len(all)
              /\ \E v \in DOMAIN all[gp.OneToN[x]].Send :
                    v > all[gp.OneToN[x]].Send[v] * 100

\* C26 witness: of three patterns the second one, which sends to 101 ranks
\* from 2 ranks, is not a fan-out; the others are
C26_Witness ==
    /\ Len(gp.AllPatterns) = 3
    /\ DOMAIN gp.AllPatterns[2].Send = {101}
    /\ gp.AllPatterns[2].Send[101] = 2
    /\ gp.OneToN = <<1, 3>>

----------------------------------------------------------------------------
(* scale.MapFloat64s.  A float64 is modelled by its thousandfold, an       *)
(* integer: 1000 is 1.0.  Every call of the recursion is a step; a call    *)
(* with the arguments of a call that has not returned yet repeats what     *)
(* that call did, without end.  The unit package is not part of the        *)
(* sources: a unit has a type and a scale, unit.FromString gives scale -1 for a *)
(* unit it does not know, and the scales of a type are a finite range.     *)

\* the float64 of an integer
Float(n) == n * 1000

\* the values of the maps: 0, 0.001, 0.5, 1, 1000, 2000
ScaleVals == {0, 1, 500, Float(1), Float(1000), Float(2000)}
ScaleKeys == {1, 2}

\* the units: bytes and seconds
Units == <<"B", "KB", "MB", "GB", "ns", "us", "ms", "s">>
UnitIDs == {Units[k] : k \in 1..Len(Units)} \cup {"furlong"}

\* unit.FromString: the type (0 data, 1 time) and the scale, -1 if unknown
unit_FromString(id) ==
    IF \E k \in 1..Len(Units) : Units[k] = id
    THEN LET k == CHOOSE x \in 1..Len(Units) : Units[x] = id
         IN  [type |-> (k - 1) \div 4, scale |-> (k - 1) % 4]
    ELSE [type |-> -1, scale |-> -1]

\* unit.IsValidScale
unit_IsValidScale(unitType, unitScale) ==
    unitType \in {0, 1} /\ unitScale \in 0..3

\* unit.ToString
unit_ToString(unitType, unitScale) ==
    IF unit_IsValidScale(unitType, unitScale)
    THEN Units[unitType * 4 + unitScale + 1]
    ELSE ""

DOWN == "DOWN"
UP == "UP"

mapFloat64sCompute(op, vals) ==
    [key \in DOMAIN vals |->
        IF op = DOWN THEN vals[key] * 1000 ELSE vals[key] \div 1000]

\* mapFloat64sScaleDown and mapFloat64sScaleUp: by is -1 or 1
mapFloat64sScale(by, unitType, unitScale, vals) ==
    IF unitScale = -1
    THEN [type |-> unitType, scale |-> unitScale, values |-> vals]
    ELSE IF ~unit_IsValidScale(unitType, unitScale + by)
         THEN [type |-> unitType, scale |-> unitScale, values |-> vals]
         ELSE [type |-> unitType, scale |-> unitScale + by,
               values |-> mapFloat64sCompute(IF by = -1 THEN DOWN ELSE UP,
                                             vals)]

\* sortedValues[0] and sortedValues[len(values)-1]
Smallest(vals) == SetMin({vals[k] : k \in DOMAIN vals})
Largest(vals) == SetMax({vals[k] : k \in DOMAIN vals})

\* the tests of the two if statements of MapFloat64s
ScalesDown(vals) ==
    Cardinality(DOMAIN vals) >= 2 /\ Smallest(vals) >= 0 /\ Largest(vals) <= Float(1)
ScalesUp(vals) ==
    ~ScalesDown(vals) /\ Cardinality(DOMAIN vals) > 0 /\ Smallest(vals) >= Float(1000)

\* the arguments of the recursive call
Recursion(by, id, vals) ==
    LET u == unit_FromString(id)
        s == mapFloat64sScale(by, u.type, u.scale, vals)
    IN  [unitID |-> unit_ToString(s.type, s.scale), values |-> s.values]

InitScale ==
    /\ mpc = "call"
    /\ unitID \in UnitIDs
    /\ values \in MapsOver(ScaleKeys, ScaleVals)
    /\ mActive = {[unitID |-> unitID, values |-> values]}

\* return MapFloat64s(newUnitID, newValues), from either if statement
MapFloat64sRecurse ==
    /\ mpc = "call"
    /\ ScalesDown(values) \/ ScalesUp(values)
    /\ LET next == Recursion(IF ScalesDown(values) THEN -1 ELSE 1,
                             unitID, values)
       IN  /\ unitID' = next.unitID
           /\ values' = next.values
           /\ mActive' = mActive \cup {next}
           /\ mpc' = IF next \in mActive THEN "loops" ELSE "call"
    /\ UNCHANGED notScale

\* return unitID, values
MapFloat64sReturn ==
    /\ mpc = "call"
    /\ ~ScalesDown(values) /\ ~ScalesUp(values)
    /\ mpc' = "returned"
    /\ mActive' = {}
    /\ UNCHANGED <<unitID, values>>
    /\ UNCHANGED notScale

NextScale == MapFloat64sRecurse \/ MapFloat64sReturn

InitSpecScale == IdleButScale /\ InitScale

SpecScale == InitSpecScale /\ [][NextScale]_vars

\* C27: MapFloat64s terminates for every unit and every map: the recursion
\* never comes to a call with the arguments of a call that is still
\* waiting for it, also with all values in [0,1] or all equal to 1 or to
\* 1000, with an unknown unit and with a unit at its smallest or largest
\* scale.
C27_Terminates == mpc # "loops"

----------------------------------------------------------------------------
(* Validate and the process id, checked under SpecVal *)

\* the name is that of a validation file of process id p
CarriesPid(name, p) == HasAt(name, "validation_data-pid" \o Itoa(p) \o "-", 1)

\* C28: Validate for process id p works on the validation files of the
\* directory whose names carry pid p, all of them and no other: a file of
\* another process id is neither looked up nor compared, nor reported as
\* validated or as the failing one.
C28_OnlyOwnPid ==
    /\ vpc # "start" =>
          files = SelectSeq(vDir, LAMBDA f : CarriesPid(f.name, vPid))
    /\ \A k \in 1..Len(vDone) : CarriesPid(vDone[k], vPid)
    /\ vpc = "error" => CarriesPid(files[vIdx].name, vPid)

----------------------------------------------------------------------------
(* The bins of GetBins, checked under SpecFile *)

\* the value belongs to the bin: Min <= val < Max, or Min <= val when the
\* bin has no upper limit
InBin(b, val) == b.Min <= val /\ (b.Max = -1 \/ val < b.Max)

\* the number of calls the Count line before line k gives
CallsAt(k) ==
    LET h == SetMax({x \in 1..k : HasAt(fh[x], "Count: ", 1)})
    IN  Atoi(Words(fh[h])[2]).val

\* the values a counter of the file can stand for, and the values at the
\* limits of the bins
BinnedVals ==
    {c * d : c \in CounterVals, d \in DatatypeSizes}
    \cup {bins[k].Min : k \in 1..Len(bins)}
    \cup {bins[k].Max - 1 : k \in 1..(Len(bins) - 1)}

\* C29: the k+1 bins made from k ascending thresholds are [0,t1), [t1,t2),
\* ..., [tk, no limit), each starting where the one before ends, with size
\* 0 before the first block is read; every value a counter stands for, and
\* every value at a limit, belongs to exactly one bin; and when GetBins has read the file the sizes of the bins
\* sum to the sum over the Rank(s) lines of numCalls * the number of ranks
\* * the number of counters of the line.
C29_BinsPartition ==
    bpc # "idle" =>
        /\ Len(bins) >= 2
        /\ bins[1].Min = 0
        /\ bins[Len(bins)].Max = -1
        /\ \A k \in 1..(Len(bins) - 1) :
              /\ bins[k].Min < bins[k].Max
              /\ bins[k].Max = bins[k + 1].Min
        /\ blk = 0 => \A k \in 1..Len(bins) : bins[k].Size = 0
        /\ \A val \in BinnedVals :
              Cardinality({k \in 1..Len(bins) : InBin(bins[k], val)}) = 1
        /\ bpc = "done" =>
              SumSizes(bins) =
                  SumMap([k \in RanksLines |->
                             CallsAt(k) * Len(RanksOf(fh[k]).ids)
                                 * Len(ValuesOf(fh[k]))])

\* C29 witness: a file of two blocks was read into four bins, and three of
\* them got values
C29_Witness ==
    /\ bpc = "done"
    /\ blk = 2
    /\ Len(bins) = 4
    /\ Cardinality({k \in 1..Len(bins) : bins[k].Size > 0}) >= 2
    /\ bins[1].Size > 0
    /\ bins[4].Size > 0

====
